---- MODULE Spec2Model ----
(***************************************************************************)
(* Model of the benchmark pipeline of homebrew-goxel: sampling,            *)
(* aggregation, percentile estimation, CLI/daemon comparison and           *)
(* regression detection.                                                   *)
(*                                                                         *)
(* Numbers.  Durations and metric values are integers (one unit = one      *)
(* tick of the measured quantity).  Every Python float division is         *)
(* modelled exactly, as a reduced fraction [n, d] with d > 0, so that two  *)
(* quotients are equal exactly when the fractions are equal.  Binary       *)
(* floating-point rounding is not modelled.                                *)
(*                                                                         *)
(* A Python dict is a function whose DOMAIN is its set of keys.            *)
(***************************************************************************)
EXTENDS Integers, Sequences, FiniteSets, TLC

VARIABLES
    \* ---- _percentile (tests/performance/benchmark_v14.py) ----
    data,           \* the list handed to _percentile
    percentile,     \* the requested percentile
    pct_result,     \* the value _percentile returned, None before the call
    \* ---- find_matching_results (tools/benchmark_report.py) ----
    cli_results,    \* list of BenchmarkResult (baseline mode)
    daemon_results, \* list of BenchmarkResult (candidate mode)
    comparisons,    \* the list find_matching_results builds
    cmp_i,          \* number of cli_results the loop has consumed
    cmp_pc,         \* "loop" | "done"
    returned,       \* history: the list each call of find_matching_results returned
    \* ---- PerformanceComparison._calculate_comparison (tests/performance/benchmark_v14.py) ----
    cli_metrics,    \* PerformanceMetrics of the CLI run (baseline mode)
    daemon_metrics, \* PerformanceMetrics of the daemon run (candidate mode)
    comparison,     \* the ComparisonResults returned, None before the return
    calc_pc,        \* "start" | "done" | "raised"
    \* ---- PerformanceReporter.detect_regressions (tools/performance_reporter.py) ----
    benchmark_results, \* self.benchmark_results
    baseline,          \* the baseline document or None
    regressions,       \* the list detect_regressions builds
    reg_k,             \* number of (result, metric) pairs the nested loops have consumed
    reg_pc,            \* "start" | "loop" | "done" | "raised"
    \* ---- sequential aggregators ----
    harness,        \* which aggregator runs: "cli" | "daemon" | "profiler" | "file_path"
    num_samples,    \* the iteration count handed to the aggregator
    agg_i,          \* the loop variable i (iterations completed)
    latencies,      \* the list the statistics are computed from
    errors,         \* the error list of the summary
    samples,        \* history: every sampler outcome taken so far, [duration, success, counted]
    nominal,        \* the outcome the environment gives by default: "ok" | "fail"
    deviations,     \* how many iterations differed from the nominal one (bounds the inputs)
    summary,        \* the returned summary, None before the return
    agg_pc,         \* "start" | "loop" | "done" | "raised"
    agg_exc,        \* the exception that left the aggregator, "" when none
    daemon_process, \* "none" | "running" | "stopped"
    \* ---- the concurrent harnesses ----
    conc_kind,      \* "clients" (benchmark_concurrent_clients) | "renders" (benchmark_concurrent_renders)
    num_clients,    \* number of worker threads asked for
    operations_per_client, \* operations each client worker performs
    threads,        \* per spawned thread: [pc, i, latencies, errors, tmp, history]
    results,        \* the shared list the client workers append to
    request_id,     \* self.request_id, shared by all workers
    issued_ids,     \* history: [client, op, id] of every request built
    all_latencies,  \* the pooled list built after the join (render_times of the renders)
    all_errors,     \* the pooled error list (errors of the renders)
    total_test_time, \* wall time of the spawn and join loops, ms
    conc_summary,   \* the returned summary, None before the return
    conc_pc,        \* main thread: "start" | "spawn" | "join" | "aggregate" | "done"
    conc_i,         \* main thread loop index (spawn loop, join loop)
    \* ---- the samplers, one call at a time ----
    sampler,        \* "run_cli_command" | "send_json_rpc" | "run_command"
    calls,          \* history: [reply, d, outcome] of every call that returned
    smp_pc,         \* "ready" | "raised"
    smp_exc,        \* the exception that left the sampler, "" when none
    \* ---- the receive loop of the socket-mode request routines ----
    rx_routine,     \* "send_json_rpc" | "send_request" | "ci_send_request"
    rx_message,     \* the response the service wrote, newline included
    peer_end,       \* what the peer does after its last byte: "close" | "stall"
    wire,           \* the bytes the peer has still to deliver on this connection
    response_data,  \* the bytes accumulated so far
    rx_eof,         \* TRUE once a recv returned the empty chunk (peer closed)
    rx_pc,          \* "recv" | "parse" | "done"
    rx_response,    \* what the routine made of response_data, None before the parse
    \* ---- stop_daemon ----
    stop_routine,   \* which stop_daemon runs
    proc,           \* the Popen handle's process: "none" | "running" | "exited"
    files,          \* which of the service's files exist: subset of {"socket", "pid", "log"}
    stop_log,       \* history: "terminate" | "expired" | "kill" | "unlink" events, in order
    stop_pc,        \* "start" | "wait" | "kill" | "wait_killed" | "cleanup" | "returned"
    \* ---- evaluate_results and main (scripts/run_benchmarks.py) ----
    run_results,    \* the list `results` of run_benchmark result dicts
    evaluation,     \* the dict evaluate_results returned, None before the call
    \* ---- the command-line programs, one run ----
    program,        \* "run_benchmarks" | "benchmark_v14" | "performance_reporter"
    args,           \* the parsed command line
    env,            \* what the run meets: binaries, daemon, samples, results, baseline
    run_pc,         \* position in main(), "exited" at the end
    run_log,        \* history: "sample", "report_*", "error" events in order
    exit_code,      \* the exit status, -1 while running
    run_end         \* [end, unmet, regressed]: how main ended and what it found

pctVars == <<data, percentile, pct_result>>
cmpVars == <<cli_results, daemon_results, comparisons, cmp_i, cmp_pc, returned>>
calcVars == <<cli_metrics, daemon_metrics, comparison, calc_pc>>
smpVars == <<sampler, calls, smp_pc, smp_exc>>
regVars == <<benchmark_results, baseline, regressions, reg_k, reg_pc>>
aggVars == <<harness, num_samples, nominal, agg_i, latencies, errors, samples, deviations,
             summary, agg_pc, agg_exc, daemon_process>>
aggOnly == <<harness, num_samples, agg_i, latencies, errors, samples, summary, agg_pc,
             agg_exc>>
concVars == <<conc_kind, num_clients, operations_per_client, threads, results, request_id,
              issued_ids, all_latencies, all_errors, total_test_time, conc_summary,
              conc_pc, conc_i>>
recvVars == <<rx_routine, rx_message, peer_end, wire, response_data, rx_eof, rx_pc, rx_response>>
stopVars == <<stop_routine, proc, files, stop_log, stop_pc>>
evalVars == <<run_results, evaluation>>
runVars == <<program, args, env, run_pc, run_log, exit_code, run_end>>
topVars == <<recvVars, stopVars, evalVars, runVars>>
baseVars == <<pctVars, cmpVars, calcVars, smpVars, regVars, aggVars, concVars>>
vars == <<baseVars, topVars>>

\* Python's None: a record, so that it compares unequal to every number record.
None == [none |-> TRUE]

(***************************************************************************)
(* Exact arithmetic                                                        *)
(***************************************************************************)
Abs(x) == IF x < 0 THEN -x ELSE x

RECURSIVE GCD(_, _)
GCD(a, b) == IF b = 0 THEN a ELSE GCD(b, a % b)

\* The quotient n / d of a Python true division, d > 0.
Rat(n, d) ==
    LET g == GCD(Abs(n), d)
    IN  IF n = 0 THEN [n |-> 0, d |-> 1] ELSE [n |-> n \div g, d |-> d \div g]

RatInt(x) == [n |-> x, d |-> 1]
RatLE(a, b) == a.n * b.d <= b.n * a.d
RatLT(a, b) == a.n * b.d < b.n * a.d
Zero == [n |-> 0, d |-> 1]

RECURSIVE Sum(_)
Sum(s) == IF s = <<>> THEN 0 ELSE Head(s) + Sum(Tail(s))

RECURSIVE Flatten(_)
Flatten(ss) == IF ss = <<>> THEN <<>> ELSE Head(ss) \o Flatten(Tail(ss))

SeqsUpTo(S, n) == UNION {[1..k -> S] : k \in 0..n}

(***************************************************************************)
(* sorted(), min(), max(), statistics.mean, statistics.median              *)
(***************************************************************************)
RECURSIVE Insert(_, _)
Insert(x, s) ==
    IF s = <<>> THEN <<x>>
    ELSE IF x <= Head(s) THEN <<x>> \o s
    ELSE <<Head(s)>> \o Insert(x, Tail(s))

RECURSIVE Sorted(_)
Sorted(s) == IF s = <<>> THEN <<>> ELSE Insert(Head(s), Sorted(Tail(s)))

RECURSIVE min(_)
min(s) == IF Len(s) = 1 THEN s[1]
          ELSE LET m == min(Tail(s)) IN IF Head(s) < m THEN Head(s) ELSE m

RECURSIVE max(_)
max(s) == IF Len(s) = 1 THEN s[1]
          ELSE LET m == max(Tail(s)) IN IF Head(s) > m THEN Head(s) ELSE m

mean(s) == Rat(Sum(s), Len(s))

median(s) ==
    LET srt == Sorted(s)
        n == Len(s)
    IN  IF n % 2 = 1 THEN RatInt(srt[(n \div 2) + 1])
        ELSE Rat(srt[n \div 2] + srt[(n \div 2) + 1], 2)

(***************************************************************************)
(* _percentile(data, percentile)                                           *)
(*   index = (percentile / 100) * (len(sorted_data) - 1), kept as the      *)
(*   numerator idx of idx / 100.  Python lists are 0-based, sequences      *)
(*   1-based.                                                              *)
(***************************************************************************)
PercentileNoSort(d, p) ==
    IF d = <<>> THEN Zero
    ELSE LET idx == p * (Len(d) - 1)
             k == idx \div 100
         IN  IF idx % 100 = 0 THEN RatInt(d[k + 1])
             ELSE Rat(100 * d[k + 1] + (d[k + 2] - d[k + 1]) * (idx % 100), 100)

PercentileNearestRank(d, p) ==
    IF d = <<>> THEN Zero
    ELSE LET sorted_data == Sorted(d)
             idx == p * (Len(sorted_data) - 1)
         IN  RatInt(sorted_data[(idx \div 100) + 1])

_percentile(d, p) ==
    IF d = <<>> THEN Zero
    ELSE LET sorted_data == Sorted(d)
             idx == p * (Len(sorted_data) - 1)
             k == idx \div 100
         IN  IF idx % 100 = 0 THEN RatInt(sorted_data[k + 1])
             ELSE LET lower == sorted_data[k + 1]
                      upper == sorted_data[k + 2]
                  IN  Rat(100 * lower + (upper - lower) * (idx % 100), 100)

(***************************************************************************)
(* Idle values: a specification that exercises one component leaves the    *)
(* variables of the other components at these values.                      *)
(***************************************************************************)
PctIdle == data = <<>> /\ percentile = 0 /\ pct_result = None
CmpIdle == /\ cli_results = <<>> /\ daemon_results = <<>> /\ comparisons = <<>>
           /\ cmp_i = 0 /\ cmp_pc = "done" /\ returned = <<>>
SmpIdle == sampler = "" /\ calls = <<>> /\ smp_pc = "" /\ smp_exc = ""
CalcIdle == /\ cli_metrics = None /\ daemon_metrics = None /\ comparison = None
            /\ calc_pc = "done"
RegIdle == /\ benchmark_results = <<>> /\ baseline = None /\ regressions = <<>>
           /\ reg_k = 0 /\ reg_pc = "done"
AggOnlyIdle == /\ harness = "cli" /\ num_samples = 0 /\ agg_i = 0 /\ latencies = <<>>
               /\ errors = <<>> /\ samples = <<>> /\ summary = None
               /\ agg_pc = "done" /\ agg_exc = ""
AggIdle == AggOnlyIdle /\ deviations = 0 /\ daemon_process = "none" /\ nominal = "ok"
RecvIdle == /\ rx_routine = "" /\ rx_message = <<>> /\ peer_end = "close" /\ wire = <<>>
            /\ response_data = <<>> /\ rx_eof = FALSE /\ rx_pc = "" /\ rx_response = None
StopIdle == /\ stop_routine = "" /\ proc = "none" /\ files = {} /\ stop_log = <<>>
            /\ stop_pc = ""
EvalIdle == run_results = <<>> /\ evaluation = None
RunIdle == /\ program = "" /\ args = None /\ env = None /\ run_pc = "" /\ run_log = <<>>
           /\ exit_code = -1 /\ run_end = None
TopIdle == RecvIdle /\ StopIdle /\ EvalIdle /\ RunIdle
ConcIdle == /\ conc_kind = "clients" /\ num_clients = 0 /\ operations_per_client = 0
            /\ threads = <<>> /\ results = <<>> /\ request_id = 1
            /\ issued_ids = {} /\ all_latencies = <<>> /\ all_errors = <<>>
            /\ total_test_time = 0 /\ conc_summary = None /\ conc_pc = "done"
            /\ conc_i = 0
BaseIdle == PctIdle /\ CmpIdle /\ CalcIdle /\ SmpIdle /\ RegIdle /\ AggIdle /\ ConcIdle

(***************************************************************************)
(* SpecPercentile: _percentile applied to every list of up to MaxLen       *)
(* samples drawn from PctVals, at the percentiles of Percentiles.          *)
(***************************************************************************)
MaxLen == 4
PctVals == {10, 20, 30, 40, 42}
Percentiles == {0, 1, 5, 10, 25, 33, 50, 66, 75, 90, 95, 99, 100}

PctInit ==
    /\ data \in SeqsUpTo(PctVals, MaxLen)
    /\ percentile \in Percentiles
    /\ pct_result = None
    /\ TopIdle /\ CmpIdle /\ CalcIdle /\ SmpIdle /\ RegIdle /\ AggIdle /\ ConcIdle

CallPercentile ==
    /\ pct_result = None
    /\ pct_result' = _percentile(data, percentile)
    /\ UNCHANGED <<data, percentile, cmpVars, calcVars, smpVars, regVars, aggVars, concVars, topVars>>

PctNext == CallPercentile

SpecPercentile == PctInit /\ [][PctNext]_vars

Range(s) == {s[j] : j \in DOMAIN s}
SetMin(S) == CHOOSE v \in S : \A w \in S : v <= w
SetMax(S) == CHOOSE v \in S : \A w \in S : v >= w

\* The k-th smallest sample (k counted from 0), defined by counting, not by sorting.
OrderStat(d, k) ==
    CHOOSE v \in Range(d) :
        /\ Cardinality({j \in DOMAIN d : d[j] < v}) <= k
        /\ Cardinality({j \in DOMAIN d : d[j] <= v}) > k

\* C1: for a non-empty list and p in [0,100], _percentile returns the value linearly
\* interpolated at index p/100*(n-1) of the sorted list: the element at that index
\* when the index is an integer, otherwise lower + (upper-lower)*fraction; p0 is the
\* minimum, p100 the maximum, [10,20,30,40] gives p50 = 25, and a single sample is
\* returned for every p.
C1_PercentileInterpolates ==
    (pct_result # None /\ data # <<>>) =>
        LET n == Len(data)
            idx == percentile * (n - 1)
            k == idx \div 100
            r == idx % 100
            lo == OrderStat(data, k)
            hi == OrderStat(data, IF r = 0 THEN k ELSE k + 1)
        IN  /\ pct_result.n * 100 = pct_result.d * (lo * (100 - r) + hi * r)
            /\ (r = 0 => pct_result = RatInt(lo))
            /\ (percentile = 0 => pct_result = RatInt(SetMin(Range(data))))
            /\ (percentile = 100 => pct_result = RatInt(SetMax(Range(data))))
            /\ (data = <<10, 20, 30, 40>> /\ percentile = 50 => pct_result = RatInt(25))
            /\ (n = 1 => pct_result = RatInt(data[1]))

\* C1 witness: an unsorted four-sample list whose p50 was interpolated to 25.
C1_Witness ==
    /\ data = <<40, 10, 30, 20>> /\ percentile = 50 /\ pct_result = RatInt(25)

(***************************************************************************)
(* tools/benchmark_report.py: BenchmarkResult, PerformanceComparison and   *)
(* find_matching_results.  A BenchmarkResult is [name, metrics]; metrics   *)
(* is the dict read from the result file.                                  *)
(***************************************************************************)
EmptyDict == [k \in {} |-> 0]
Dict1(k, v) == [x \in {k} |-> v]
Dict2(k1, v1, k2, v2) == [x \in {k1, k2} |-> IF x = k1 THEN v1 ELSE v2]

\* PerformanceComparison.__init__ with the latency regression test written >=.
PerformanceComparisonGE(cli_result, daemon_result) ==
    LET cm == cli_result.metrics
        dm == daemon_result.metrics
        init == [cli |-> cli_result, daemon |-> daemon_result,
                 improvement_ratio |-> None, regression |-> FALSE]
    IN  IF DOMAIN cm # {} /\ DOMAIN dm # {}
        THEN IF "avg_latency_ms" \in DOMAIN cm /\ "avg_latency_ms" \in DOMAIN dm
             THEN IF dm["avg_latency_ms"] > 0
                  THEN [init EXCEPT
                          !.improvement_ratio = Rat(cm["avg_latency_ms"], dm["avg_latency_ms"]),
                          !.regression = dm["avg_latency_ms"] >= cm["avg_latency_ms"]]
                  ELSE init
             ELSE IF "throughput_ops_sec" \in DOMAIN cm /\ "throughput_ops_sec" \in DOMAIN dm
             THEN IF cm["throughput_ops_sec"] > 0
                  THEN [init EXCEPT
                          !.improvement_ratio =
                              Rat(dm["throughput_ops_sec"], cm["throughput_ops_sec"]),
                          !.regression = dm["throughput_ops_sec"] < cm["throughput_ops_sec"]]
                  ELSE init
             ELSE init
        ELSE init

\* PerformanceComparison.__init__
PerformanceComparison(cli_result, daemon_result) ==
    LET cm == cli_result.metrics
        dm == daemon_result.metrics
        init == [cli |-> cli_result, daemon |-> daemon_result,
                 improvement_ratio |-> None, regression |-> FALSE]
    IN  IF DOMAIN cm # {} /\ DOMAIN dm # {}
        THEN IF "avg_latency_ms" \in DOMAIN cm /\ "avg_latency_ms" \in DOMAIN dm
             THEN LET cli_latency == cm["avg_latency_ms"]
                      daemon_latency == dm["avg_latency_ms"]
                  IN  IF daemon_latency > 0
                      THEN [init EXCEPT
                              !.improvement_ratio = Rat(cli_latency, daemon_latency),
                              !.regression = daemon_latency > cli_latency]
                      ELSE init
             ELSE IF "throughput_ops_sec" \in DOMAIN cm /\ "throughput_ops_sec" \in DOMAIN dm
             THEN LET cli_throughput == cm["throughput_ops_sec"]
                      daemon_throughput == dm["throughput_ops_sec"]
                  IN  IF cli_throughput > 0
                      THEN [init EXCEPT
                              !.improvement_ratio = Rat(daemon_throughput, cli_throughput),
                              !.regression = daemon_throughput < cli_throughput]
                      ELSE init
             ELSE init
        ELSE init

\* A lookup that pairs every CLI result with the last daemon result, whatever its name.
DaemonByPosition ==
    [nm \in (IF daemon_results = <<>> THEN {}
             ELSE {cli_results[j].name : j \in DOMAIN cli_results}) |->
        daemon_results[Len(daemon_results)]]

\* A lookup that is filled by the first call only and found empty by a later one.
DaemonByNameOnce ==
    IF returned # <<>> THEN EmptyDict
    ELSE [nm \in {daemon_results[j].name : j \in DOMAIN daemon_results} |->
            daemon_results[SetMax({j \in DOMAIN daemon_results : daemon_results[j].name = nm})]]

\* daemon_by_name = {r.name: r for r in daemon_results}: the last result of a name wins.
daemon_by_name ==
    [nm \in {daemon_results[j].name : j \in DOMAIN daemon_results} |->
        daemon_results[SetMax({j \in DOMAIN daemon_results : daemon_results[j].name = nm})]]

MaxResults == 1
MaxRuns == 2
ResultNames == {"t1", "t2"}
MetricChoices ==
    { EmptyDict,
      Dict1("avg_latency_ms", 10), Dict1("avg_latency_ms", 2), Dict1("avg_latency_ms", 0),
      Dict1("throughput_ops_sec", 100), Dict1("throughput_ops_sec", 700),
      Dict1("throughput_ops_sec", 0),
      Dict2("avg_latency_ms", 10, "throughput_ops_sec", 100),
      Dict2("avg_latency_ms", 2, "throughput_ops_sec", 700) }
ResultPool == [name : ResultNames, metrics : MetricChoices]

CmpInit ==
    /\ cli_results \in SeqsUpTo(ResultPool, MaxResults)
    /\ daemon_results \in SeqsUpTo(ResultPool, MaxResults)
    /\ comparisons = <<>>
    /\ cmp_i = 0
    /\ cmp_pc = "loop"
    /\ returned = <<>>
    /\ TopIdle /\ PctIdle /\ CalcIdle /\ SmpIdle /\ RegIdle /\ AggIdle /\ ConcIdle

\* One iteration of "for cli_result in cli_results".
FindMatchingStep ==
    /\ cmp_pc = "loop"
    /\ cmp_i < Len(cli_results)
    /\ LET cli_result == cli_results[cmp_i + 1]
       IN  comparisons' =
             IF cli_result.name \in DOMAIN daemon_by_name
             THEN Append(comparisons,
                         PerformanceComparison(cli_result, daemon_by_name[cli_result.name]))
             ELSE comparisons
    /\ cmp_i' = cmp_i + 1
    /\ UNCHANGED <<cli_results, daemon_results, cmp_pc, returned, calcVars, smpVars,
                   topVars, pctVars, regVars, aggVars, concVars>>

\* "return comparisons"
FindMatchingReturn ==
    /\ cmp_pc = "loop"
    /\ cmp_i = Len(cli_results)
    /\ cmp_pc' = "done"
    /\ returned' = Append(returned, comparisons)
    /\ UNCHANGED <<cli_results, daemon_results, comparisons, cmp_i, calcVars, smpVars,
                   topVars, pctVars, regVars, aggVars, concVars>>

\* The caller calls find_matching_results(cli_results, daemon_results) once more, on
\* the same two lists: "comparisons = []" of the new call.
FindMatchingAgain ==
    /\ cmp_pc = "done"
    /\ Len(returned) < MaxRuns
    /\ comparisons' = <<>>
    /\ cmp_i' = 0
    /\ cmp_pc' = "loop"
    /\ UNCHANGED <<cli_results, daemon_results, returned, calcVars, smpVars,
                   topVars, pctVars, regVars, aggVars, concVars>>

CmpNext == FindMatchingStep \/ FindMatchingReturn \/ FindMatchingAgain

SpecCompare == CmpInit /\ [][CmpNext]_vars

\* The metric a comparison was made on: latency when both results carry it,
\* otherwise throughput when both carry it, otherwise none.
ComparedMetric(c) ==
    IF DOMAIN c.cli.metrics = {} \/ DOMAIN c.daemon.metrics = {} THEN "none"
    ELSE IF "avg_latency_ms" \in DOMAIN c.cli.metrics \cap DOMAIN c.daemon.metrics
    THEN "avg_latency_ms"
    ELSE IF "throughput_ops_sec" \in DOMAIN c.cli.metrics \cap DOMAIN c.daemon.metrics
    THEN "throughput_ops_sec"
    ELSE "none"

\* C2: every comparison follows the polarity rule.  Latency (lower is better):
\* ratio = baseline / candidate and regression = (candidate > baseline).  Throughput
\* (higher is better): ratio = candidate / baseline and regression = (candidate <
\* baseline).  The ratio is stated wherever its divisor is not zero.  Latency 10 -> 2
\* gives 5.0 and no regression, 2 -> 10 gives 0.2 and a regression, throughput
\* 100 -> 700 gives 7.0 and no regression.
C2_PolarityRule ==
    \A j \in DOMAIN comparisons :
        LET c == comparisons[j]
            m == ComparedMetric(c)
        IN  /\ m = "avg_latency_ms" =>
                LET b == c.cli.metrics[m]
                    v == c.daemon.metrics[m]
                IN  /\ c.regression = (v > b)
                    /\ v # 0 => /\ c.improvement_ratio # None
                                /\ c.improvement_ratio.n * v = c.improvement_ratio.d * b
                    /\ (b = 10 /\ v = 2) => c.improvement_ratio = RatInt(5)
                    /\ (b = 2 /\ v = 10) => c.improvement_ratio = [n |-> 1, d |-> 5]
            /\ m = "throughput_ops_sec" =>
                LET b == c.cli.metrics[m]
                    v == c.daemon.metrics[m]
                IN  /\ c.regression = (v < b)
                    /\ b # 0 => /\ c.improvement_ratio # None
                                /\ c.improvement_ratio.n * b = c.improvement_ratio.d * v
                    /\ (b = 100 /\ v = 700) => c.improvement_ratio = RatInt(7)

\* C2 witness: a latency pair 2 -> 10 was compared and flagged, ratio 1/5.
C2_Witness ==
    /\ cmp_pc = "done"
    /\ \E j \in DOMAIN comparisons :
         /\ ComparedMetric(comparisons[j]) = "avg_latency_ms"
         /\ comparisons[j].cli.metrics["avg_latency_ms"] = 2
         /\ comparisons[j].daemon.metrics["avg_latency_ms"] = 10
         /\ comparisons[j].improvement_ratio = [n |-> 1, d |-> 5]
         /\ comparisons[j].regression

(***************************************************************************)
(* tools/performance_reporter.py: PerformanceReporter.detect_regressions.  *)
(* A current result is [name, metrics]; metrics is the ordered dict the    *)
(* parsers fill with add_metric, kept as the sequence of its items         *)
(* [key, value, unit].  The baseline is None or the loaded document        *)
(* [results |-> <<[name, metrics]>>], metrics a dict key -> [value, unit]. *)
(* Values are in hundredths of the unit: 1000 is 10.00.                    *)
(***************************************************************************)
threshold == [n |-> 1, d |-> 10]

\* The items of the nested loops, in iteration order: for result, for metric.
RECURSIVE MetricItems(_, _)
MetricItems(rs, r) ==
    IF r > Len(rs) THEN <<>>
    ELSE [j \in 1..Len(rs[r].metrics) |-> [r |-> r, m |-> j]] \o MetricItems(rs, r + 1)

\* The baseline lookup with a missing baseline read as the value 0.
BaselineValueOrZero(b, name, metric_name) ==
    LET hits == {j \in DOMAIN b.results :
                    /\ b.results[j].name = name
                    /\ metric_name \in DOMAIN b.results[j].metrics}
    IN  IF hits = {} THEN [value |-> 0]
        ELSE [value |-> b.results[SetMin(hits)].metrics[metric_name].value]

\* The baseline value the inner search finds: the first baseline result of the same
\* name that carries the metric; None when there is none.
BaselineValue(b, name, metric_name) ==
    LET hits == {j \in DOMAIN b.results :
                    /\ b.results[j].name = name
                    /\ metric_name \in DOMAIN b.results[j].metrics}
    IN  IF hits = {} THEN None
        ELSE [value |-> b.results[SetMin(hits)].metrics[metric_name].value]

LowerIsBetterAll == {"avg_latency", "peak_memory", "final_memory"}

\* The metric names the detector treats as lower-is-better.
LowerIsBetter == {"avg_latency", "peak_memory"}

RegressionRecord(result, item, baseline_value, pct) ==
    [test |-> result.name, metric |-> item.key, baseline |-> baseline_value,
     current |-> item.value, regression_percent |-> pct, unit |-> item.unit]

\* The decision on one metric with the comparisons written >= instead of >.
CheckMetricGE(result, item, baseline_value) ==
    LET current_value == item.value
    IN  IF item.key \in LowerIsBetter
        THEN IF RatLE(threshold, Rat(current_value - baseline_value, baseline_value))
             THEN <<RegressionRecord(result, item, baseline_value,
                        Rat((current_value - baseline_value) * 100, baseline_value))>>
             ELSE <<>>
        ELSE IF RatLE(threshold, Rat(baseline_value - current_value, baseline_value))
             THEN <<RegressionRecord(result, item, baseline_value,
                        Rat((baseline_value - current_value) * 100, baseline_value))>>
             ELSE <<>>

\* The decision on one metric whose baseline value is known and not zero: the
\* records it appends.
CheckMetric(result, item, baseline_value) ==
    LET current_value == item.value
    IN  IF item.key \in LowerIsBetter
        THEN IF RatLT(threshold, Rat(current_value - baseline_value, baseline_value))
             THEN <<RegressionRecord(result, item, baseline_value,
                        Rat((current_value - baseline_value) * 100, baseline_value))>>
             ELSE <<>>
        ELSE IF RatLT(threshold, Rat(baseline_value - current_value, baseline_value))
             THEN <<RegressionRecord(result, item, baseline_value,
                        Rat((baseline_value - current_value) * 100, baseline_value))>>
             ELSE <<>>

CurVals == {899, 900, 1100, 1101}
BaseVals == {0, 1000}

Item(k, v, u) == [key |-> k, value |-> v, unit |-> u]
Opt(S) == {<<>>} \cup {<<x>> : x \in S}

\* What parse_benchmark_files can leave in self.benchmark_results: the latency,
\* throughput and memory results, each present or not, in parse order.
CurrentResults ==
    LET lat == Opt({[name |-> "latency_benchmark", metrics |-> <<Item("avg_latency", v, "ms")>>] :
                        v \in CurVals})
        thr == Opt({[name |-> "throughput_benchmark",
                     metrics |-> <<Item("avg_throughput", v, "ops/sec")>>] : v \in CurVals})
        memItems == {p \o f : p \in Opt({Item("peak_memory", v, "MB") : v \in CurVals}),
                              f \in Opt({Item("final_memory", v, "MB") : v \in CurVals})}
        mem == Opt({[name |-> "memory_profiling", metrics |-> m] : m \in memItems \ {<<>>}})
    IN  {l \o t \o m : l \in lat, t \in thr, m \in mem}

BaseMetric(v, u) == [value |-> v, unit |-> u]

\* The baseline documents: None (no baseline file), or a document whose results
\* carry any subset of the metrics.
Baselines ==
    LET lat == Opt({[name |-> "latency_benchmark", metrics |-> m] :
                        m \in {EmptyDict} \cup
                              {Dict1("avg_latency", BaseMetric(v, "ms")) : v \in BaseVals}})
        thr == Opt({[name |-> "throughput_benchmark", metrics |-> m] :
                        m \in {EmptyDict} \cup
                              {Dict1("avg_throughput", BaseMetric(v, "ops/sec")) : v \in BaseVals}})
        memDicts == {Dict1("peak_memory", BaseMetric(v, "MB")) : v \in BaseVals}
                    \cup {Dict1("final_memory", BaseMetric(v, "MB")) : v \in BaseVals}
                    \cup {Dict2("peak_memory", BaseMetric(v, "MB"),
                                "final_memory", BaseMetric(w, "MB")) : v, w \in BaseVals}
        mem == Opt({[name |-> "memory_profiling", metrics |-> m] : m \in memDicts})
    IN  {None} \cup {[results |-> l \o t \o m] : l \in lat, t \in thr, m \in mem}

RegInit ==
    /\ benchmark_results \in CurrentResults
    /\ baseline \in Baselines
    /\ regressions = <<>>
    /\ reg_k = 0
    /\ reg_pc = "start"
    /\ TopIdle /\ PctIdle /\ CmpIdle /\ CalcIdle /\ SmpIdle /\ AggIdle /\ ConcIdle

\* "if not baseline: return regressions"
DetectStart ==
    /\ reg_pc = "start"
    /\ reg_pc' = IF baseline = None THEN "done" ELSE "loop"
    /\ UNCHANGED <<benchmark_results, baseline, regressions, reg_k,
                   topVars, pctVars, cmpVars, calcVars, smpVars, aggVars, concVars>>

\* One pass of the inner loop body, for one metric of one result.
DetectStep ==
    /\ reg_pc = "loop"
    /\ reg_k < Len(MetricItems(benchmark_results, 1))
    /\ LET at == MetricItems(benchmark_results, 1)[reg_k + 1]
           result == benchmark_results[at.r]
           item == result.metrics[at.m]
           found == BaselineValue(baseline, result.name, item.key)
       IN  IF found = None
           THEN /\ regressions' = regressions
                /\ reg_pc' = reg_pc
           ELSE IF found.value = 0
           THEN \* (current_value - baseline_value) / baseline_value: ZeroDivisionError
                /\ regressions' = regressions
                /\ reg_pc' = "raised"
           ELSE /\ regressions' = regressions \o CheckMetric(result, item, found.value)
                /\ reg_pc' = reg_pc
    /\ reg_k' = reg_k + 1
    /\ UNCHANGED <<benchmark_results, baseline, topVars, pctVars, cmpVars, calcVars, smpVars, aggVars, concVars>>

\* "return regressions"
DetectReturn ==
    /\ reg_pc = "loop"
    /\ reg_k = Len(MetricItems(benchmark_results, 1))
    /\ reg_pc' = "done"
    /\ UNCHANGED <<benchmark_results, baseline, regressions, reg_k,
                   topVars, pctVars, cmpVars, calcVars, smpVars, aggVars, concVars>>

RegNext == DetectStart \/ DetectStep \/ DetectReturn

SpecRegress == RegInit /\ [][RegNext]_vars

\* The (result, metric) pairs that have a non-zero baseline value.
Comparable ==
    IF baseline = None THEN {}
    ELSE {k \in DOMAIN MetricItems(benchmark_results, 1) :
            LET at == MetricItems(benchmark_results, 1)[k]
                result == benchmark_results[at.r]
                found == BaselineValue(baseline, result.name, result.metrics[at.m].key)
            IN  found # None /\ found.value # 0}

HasRecord(test, metric) ==
    \E j \in DOMAIN regressions : regressions[j].test = test /\ regressions[j].metric = metric

C4_NoRecordForImprovement ==
    \A j \in DOMAIN regressions :
        LET r == regressions[j]
        IN  /\ r.metric \in LowerIsBetterAll => r.current > r.baseline
            /\ r.metric = "avg_throughput" => r.current < r.baseline

(***************************************************************************)
(* The samplers of tests/performance/benchmark_v14.py.                     *)
(*                                                                         *)
(* The environment answers each operation with a reply; Durations gives    *)
(* the elapsed times it can take (milliseconds).  A run is nominal         *)
(* (every operation succeeds in Durations.nominal, or, when the service is *)
(* down, every sequence fails at its first operation) except in at most    *)
(* MaxDeviations iterations.  Memory readings (psutil) are not modelled.   *)
(***************************************************************************)
DEFAULT_TIMEOUT == 30
ProgressSteps == 10
Durations == [nominal |-> 2, slow |-> 7, failed |-> 5]
TimeoutMs == DEFAULT_TIMEOUT * 1000

CliOperations == <<"create_project", "add_voxel", "export_model">>
DaemonOperations ==
    <<"goxel.create_project", "goxel.add_voxel", "goxel.get_voxel", "goxel.get_status">>

\* run_cli_command: (duration_ms, success, error_msg) for what the process did.
run_cli_command(reply, d) ==
    IF reply = "ok" THEN [duration_ms |-> d, success |-> TRUE, msg |-> ""]
    ELSE IF reply = "exit" THEN [duration_ms |-> d, success |-> FALSE, msg |-> "stderr"]
    ELSE IF reply = "timeout"
    THEN [duration_ms |-> TimeoutMs, success |-> FALSE, msg |-> "Command timeout"]
    ELSE [duration_ms |-> 0, success |-> FALSE, msg |-> "exception"]

\* The response dict send_json_rpc parses: "result" present or not, and "error"
\* absent (None), an error object, or, from the except branch, a string.
StrError == [str |-> TRUE]
Response(reply) ==
    IF reply = "result" THEN [result |-> TRUE, error |-> None]
    ELSE IF reply = "rpc_error"
    THEN [result |-> FALSE, error |-> [code |-> -32601, message |-> "Method not found"]]
    ELSE IF reply = "parse_error"
    THEN [result |-> FALSE, error |-> [code |-> -32700, message |-> "Parse error"]]
    ELSE [result |-> FALSE, error |-> None]

\* The replies that raise inside the try block of send_json_rpc: the connection is
\* refused, a socket operation times out, json.loads rejects the text; "exception"
\* stands for any of them where the kind does not matter.
TransportFailures == {"exception", "refused", "timeout", "invalid_json"}

\* send_json_rpc: (duration_ms, success, response).
send_json_rpc(reply, d) ==
    IF reply \in TransportFailures
    THEN [duration_ms |-> TimeoutMs, success |-> FALSE,
          response |-> [result |-> FALSE, error |-> StrError]]
    ELSE LET response == Response(reply)
         IN  [duration_ms |-> d,
              success |-> response.result
                          \/ (response.error # None /\ response.error.code # -32700),
              response |-> response]

\* response.get("error", {}).get("message", "Unknown error"); "AttributeError" when
\* response["error"] is a string, which has no get.
error_msg(response) ==
    IF response.error = None THEN "Unknown error"
    ELSE IF response.error = StrError THEN "AttributeError"
    ELSE response.error.message

\* The statistics block shared by the three aggregators of benchmark_v14.py; ops is
\* the number of operations a latency entry stands for, attempted the number of
\* entries a fully successful run would have.
Metrics(test_name, lat, errs, ops_per_entry, total_time, attempted, clients) ==
    IF lat # <<>>
    THEN [test_name |-> test_name,
          operation_count |-> Len(lat) * ops_per_entry,
          total_time_ms |-> total_time,
          avg_latency_ms |-> mean(lat),
          min_latency_ms |-> RatInt(min(lat)),
          max_latency_ms |-> RatInt(max(lat)),
          p50_latency_ms |-> median(lat),
          p95_latency_ms |-> _percentile(lat, 95),
          p99_latency_ms |-> _percentile(lat, 99),
          throughput_ops_sec |-> Rat(Len(lat) * ops_per_entry * 1000, total_time),
          success_rate_percent |-> Rat(Len(lat) * 100, attempted),
          concurrent_clients |-> clients,
          errors |-> errs]
    ELSE [test_name |-> test_name,
          operation_count |-> 0,
          total_time_ms |-> total_time,
          avg_latency_ms |-> Zero, min_latency_ms |-> Zero, max_latency_ms |-> Zero,
          p50_latency_ms |-> Zero, p95_latency_ms |-> Zero, p99_latency_ms |-> Zero,
          throughput_ops_sec |-> Zero,
          success_rate_percent |-> Zero,
          concurrent_clients |-> clients,
          errors |-> errs]

\* The summary returned when start_daemon() reported failure.
FailedStart(test_name, clients) ==
    Metrics(test_name, <<>>, <<"Failed to start daemon">>, 1, 0, 1, clients)

(***************************************************************************)
(* SpecAggregate: the sequential aggregators.                              *)
(*   "cli"       CLIPerformanceTester.benchmark_basic_operations           *)
(*   "daemon"    DaemonPerformanceTester.benchmark_basic_operations        *)
(*   "profiler"  PerformanceProfiler._run_multiple_timed                   *)
(*   "file_path" RenderBenchmark.benchmark_file_path_mode                  *)
(* One action is one pass of the aggregator's for loop.  samples is the    *)
(* history of the timed outcomes: [duration, success, counted], counted    *)
(* telling whether the code put the duration into its statistics list.     *)
(***************************************************************************)
MaxSamples == 10
MaxDeviations == 1
Harnesses == {"cli", "daemon", "profiler", "file_path"}

Sample(d, ok, counted) == [duration |-> d, success |-> ok, counted |-> counted]
Replace(seq, k, x) == [seq EXCEPT ![k] = x]

\* --- what the environment can do in one iteration ---
CliOutcomes ==
    {[reply |-> "ok", op |-> 0, d |-> d] : d \in {Durations.nominal, Durations.slow}}
    \cup {[reply |-> r, op |-> k, d |-> Durations.failed] :
            r \in {"exit", "timeout", "exception"}, k \in DOMAIN CliOperations}
CliNominal ==
    IF nominal = "ok" THEN [reply |-> "ok", op |-> 0, d |-> Durations.nominal]
    ELSE [reply |-> "exit", op |-> 1, d |-> Durations.failed]

Reply(r, d) == [reply |-> r, d |-> d]
AllOk == [k \in DOMAIN DaemonOperations |-> Reply("result", Durations.nominal)]
DaemonScripts ==
    {AllOk} \cup
    {Replace(AllOk, k, x) :
        k \in DOMAIN DaemonOperations,
        x \in {Reply("result", Durations.slow), Reply("rpc_error", Durations.nominal),
               Reply("parse_error", Durations.failed), Reply("empty", Durations.failed),
               Reply("exception", 0)}}
DaemonNominal ==
    IF nominal = "ok" THEN AllOk ELSE Replace(AllOk, 1, Reply("empty", Durations.failed))

CommandOutcomes ==
    {[reply |-> "ok", d |-> d] : d \in {Durations.nominal, Durations.slow}}
    \cup {[reply |-> "exit", d |-> Durations.failed], [reply |-> "timeout", d |-> TimeoutMs]}
CommandNominal ==
    IF nominal = "ok" THEN [reply |-> "ok", d |-> Durations.nominal]
    ELSE [reply |-> "exit", d |-> Durations.failed]

RenderOutcomes ==
    {[reply |-> "ok", d |-> d] : d \in {Durations.nominal, Durations.slow}}
    \cup {[reply |-> "unsuccessful", d |-> Durations.failed], [reply |-> "exception", d |-> 0]}
RenderNominal ==
    IF nominal = "ok" THEN [reply |-> "ok", d |-> Durations.nominal]
    ELSE [reply |-> "unsuccessful", d |-> Durations.failed]

\* An iteration may leave the nominal outcome only while deviations remain.
Allowed(o, nom) == o = nom \/ deviations < MaxDeviations
Spend(o, nom) == IF o = nom THEN deviations ELSE deviations + 1

AggInit ==
    /\ harness \in Harnesses
    /\ num_samples \in 0..MaxSamples
    /\ nominal \in {"ok", "fail"}
    /\ agg_i = 0
    /\ latencies = <<>>
    /\ errors = <<>>
    /\ samples = <<>>
    /\ deviations = 0
    /\ summary = None
    /\ agg_pc = IF harness = "daemon" THEN "start" ELSE "loop"
    /\ agg_exc = ""
    /\ daemon_process = "none"
    /\ TopIdle /\ PctIdle /\ CmpIdle /\ CalcIdle /\ SmpIdle /\ RegIdle /\ ConcIdle

\* "(i + 1) % (num_samples // 10) == 0": ZeroDivisionError when num_samples < 10.
ProgressRaises == num_samples \div ProgressSteps = 0

\* start_daemon(): the socket appeared within the wait ("ready"); Popen raised, so
\* there is no process ("popen_failed"); or the process was spawned and the socket
\* never appeared ("not_ready").
StartOutcomes == {"ready", "popen_failed", "not_ready"}
start_daemon(outcome) ==
    [ok |-> outcome = "ready",
     daemon_process |-> IF outcome = "popen_failed" THEN "none" ELSE "running"]

\* "if not self.start_daemon(): return PerformanceMetrics(...)" of the sequential
\* daemon benchmark.
StartDaemon ==
    /\ agg_pc = "start"
    /\ \E outcome \in StartOutcomes :
         /\ daemon_process' = start_daemon(outcome).daemon_process
         /\ IF start_daemon(outcome).ok
            THEN agg_pc' = "loop" /\ summary' = summary
            ELSE /\ agg_pc' = "done"
                 /\ summary' = FailedStart("Daemon_Basic_Operations", 1)
    /\ UNCHANGED <<harness, num_samples, nominal, agg_i, latencies, errors, samples,
                   deviations, agg_exc, topVars, pctVars, cmpVars, calcVars, smpVars, regVars, concVars>>

\* One pass of "for i in range(num_samples)" of the CLI benchmark.
CliIteration ==
    /\ harness = "cli" /\ agg_pc = "loop" /\ agg_i < num_samples
    /\ \E o \in CliOutcomes :
         /\ Allowed(o, CliNominal)
         /\ deviations' = Spend(o, CliNominal)
         /\ LET r == run_cli_command(o.reply, o.d)
            IN  /\ latencies' = IF r.success THEN Append(latencies, o.d) ELSE latencies
                /\ errors' = IF r.success THEN errors
                             ELSE Append(errors, [op |-> CliOperations[o.op], msg |-> r.msg])
                /\ samples' = Append(samples, Sample(o.d, r.success, r.success))
    /\ agg_i' = agg_i + 1
    /\ IF ProgressRaises
       THEN agg_pc' = "raised" /\ agg_exc' = "ZeroDivisionError"
       ELSE agg_pc' = agg_pc /\ agg_exc' = agg_exc
    /\ UNCHANGED <<harness, num_samples, nominal, summary, daemon_process,
                   topVars, pctVars, cmpVars, calcVars, smpVars, regVars, concVars>>

\* "if latencies: ... else: ..." and the return of the CLI benchmark.
CliCalc ==
    /\ harness = "cli" /\ agg_pc = "loop" /\ agg_i = num_samples
    /\ IF latencies # <<>> /\ Sum(latencies) = 0
       THEN agg_pc' = "raised" /\ agg_exc' = "ZeroDivisionError" /\ summary' = summary
       ELSE /\ agg_pc' = "done" /\ agg_exc' = agg_exc
            /\ summary' = Metrics("CLI_Basic_Operations", latencies, errors,
                                  Len(CliOperations), Sum(latencies), num_samples, 1)
    /\ UNCHANGED <<harness, num_samples, nominal, agg_i, latencies, errors, samples,
                   deviations, daemon_process, topVars, pctVars, cmpVars, calcVars, smpVars, regVars, concVars>>

\* The first operation of a script that send_json_rpc reports as failed, 0 if none.
FirstFailure(script) ==
    LET bad == {k \in DOMAIN script : ~send_json_rpc(script[k].reply, script[k].d).success}
    IN  IF bad = {} THEN 0 ELSE SetMin(bad)

\* One pass of "for i in range(num_samples)" of the daemon benchmark.  The finally
\* clause stops the daemon when the pass raises.
DaemonIteration ==
    /\ harness = "daemon" /\ agg_pc = "loop" /\ agg_i < num_samples
    /\ \E script \in DaemonScripts :
         /\ Allowed(script, DaemonNominal)
         /\ deviations' = Spend(script, DaemonNominal)
         /\ LET f == FirstFailure(script)
                taken == IF f = 0 THEN Len(script) ELSE f
                rpc(k) == send_json_rpc(script[k].reply, script[k].d)
                sequence_latencies == [k \in 1..taken |-> rpc(k).duration_ms]
                sequence_success == f = 0
                msg == IF f = 0 THEN "" ELSE error_msg(rpc(f).response)
            IN  /\ samples' = samples \o
                       [k \in 1..taken |-> Sample(rpc(k).duration_ms, rpc(k).success,
                                                  sequence_success)]
                /\ latencies' = IF sequence_success THEN latencies \o sequence_latencies
                                ELSE latencies
                /\ errors' = IF sequence_success \/ msg = "AttributeError" THEN errors
                             ELSE Append(errors, [op |-> DaemonOperations[f], msg |-> msg])
                /\ IF msg = "AttributeError"
                   THEN agg_pc' = "raised" /\ agg_exc' = "AttributeError"
                   ELSE IF ProgressRaises
                   THEN agg_pc' = "raised" /\ agg_exc' = "ZeroDivisionError"
                   ELSE agg_pc' = agg_pc /\ agg_exc' = agg_exc
    /\ agg_i' = agg_i + 1
    /\ daemon_process' = IF agg_pc' = "raised" THEN "stopped" ELSE daemon_process
    /\ UNCHANGED <<harness, num_samples, nominal, summary,
                   topVars, pctVars, cmpVars, calcVars, smpVars, regVars, concVars>>

\* The statistics block and return of the daemon benchmark, then finally: stop_daemon.
DaemonCalc ==
    /\ harness = "daemon" /\ agg_pc = "loop" /\ agg_i = num_samples
    /\ IF latencies # <<>> /\ Sum(latencies) = 0
       THEN agg_pc' = "raised" /\ agg_exc' = "ZeroDivisionError" /\ summary' = summary
       ELSE /\ agg_pc' = "done" /\ agg_exc' = agg_exc
            /\ summary' = Metrics("Daemon_Basic_Operations", latencies, errors, 1,
                                  Sum(latencies), num_samples * Len(DaemonOperations), 1)
    /\ daemon_process' = "stopped"
    /\ UNCHANGED <<harness, num_samples, nominal, agg_i, latencies, errors, samples,
                   deviations, topVars, pctVars, cmpVars, calcVars, smpVars, regVars, concVars>>

\* One pass of the loop of _run_multiple_timed: every elapsed time is appended.
ProfilerIteration ==
    /\ harness = "profiler" /\ agg_pc = "loop" /\ agg_i < num_samples
    /\ \E o \in CommandOutcomes :
         /\ Allowed(o, CommandNominal)
         /\ deviations' = Spend(o, CommandNominal)
         /\ latencies' = Append(latencies, o.d)
         /\ samples' = Append(samples, Sample(o.d, o.reply = "ok", TRUE))
    /\ agg_i' = agg_i + 1
    /\ UNCHANGED <<harness, num_samples, nominal, errors, summary, agg_pc, agg_exc,
                   daemon_process, topVars, pctVars, cmpVars, calcVars, smpVars, regVars, concVars>>

SuccessCount == Cardinality({j \in DOMAIN samples : samples[j].success})

\* The dict _run_multiple_timed returns; statistics.mean raises on an empty list.
ProfilerCalc ==
    /\ harness = "profiler" /\ agg_pc = "loop" /\ agg_i = num_samples
    /\ IF latencies = <<>>
       THEN agg_pc' = "raised" /\ agg_exc' = "StatisticsError" /\ summary' = summary
       ELSE /\ agg_pc' = "done" /\ agg_exc' = agg_exc
            /\ summary' = [iterations |-> num_samples,
                           times_ms |-> latencies,
                           mean_ms |-> mean(latencies),
                           median_ms |-> median(latencies),
                           min_ms |-> RatInt(min(latencies)),
                           max_ms |-> RatInt(max(latencies)),
                           success_rate |-> Rat(SuccessCount, Len(samples)),
                           all_succeeded |-> SuccessCount = Len(samples)]
    /\ UNCHANGED <<harness, num_samples, nominal, agg_i, latencies, errors, samples,
                   deviations, daemon_process, topVars, pctVars, cmpVars, calcVars, smpVars, regVars, concVars>>

\* One pass of the loop of benchmark_file_path_mode; an exception of send_request
\* is not caught here.
FilePathIteration ==
    /\ harness = "file_path" /\ agg_pc = "loop" /\ agg_i < num_samples
    /\ \E o \in RenderOutcomes :
         /\ Allowed(o, RenderNominal)
         /\ deviations' = Spend(o, RenderNominal)
         /\ IF o.reply = "exception"
            THEN /\ agg_pc' = "raised" /\ agg_exc' = "Exception"
                 /\ UNCHANGED <<latencies, samples>>
            ELSE /\ latencies' = IF o.reply = "ok" THEN Append(latencies, o.d) ELSE latencies
                 /\ samples' = Append(samples, Sample(o.d, o.reply = "ok", o.reply = "ok"))
                 /\ IF ProgressRaises
                    THEN agg_pc' = "raised" /\ agg_exc' = "ZeroDivisionError"
                    ELSE agg_pc' = agg_pc /\ agg_exc' = agg_exc
    /\ agg_i' = agg_i + 1
    /\ UNCHANGED <<harness, num_samples, nominal, errors, summary, daemon_process,
                   topVars, pctVars, cmpVars, calcVars, smpVars, regVars, concVars>>

\* The dict benchmark_file_path_mode returns: statistics.mean(times) raises on an
\* empty list, before iterations / sum(times) is reached.
FilePathCalc ==
    /\ harness = "file_path" /\ agg_pc = "loop" /\ agg_i = num_samples
    /\ IF latencies = <<>>
       THEN agg_pc' = "raised" /\ agg_exc' = "StatisticsError" /\ summary' = summary
       ELSE IF Sum(latencies) = 0
       THEN agg_pc' = "raised" /\ agg_exc' = "ZeroDivisionError" /\ summary' = summary
       ELSE /\ agg_pc' = "done" /\ agg_exc' = agg_exc
            /\ summary' = [mode |-> "file_path",
                           iterations |-> num_samples,
                           avg_time |-> mean(latencies),
                           min_time |-> RatInt(min(latencies)),
                           max_time |-> RatInt(max(latencies)),
                           throughput |-> Rat(num_samples * 1000, Sum(latencies))]
    /\ UNCHANGED <<harness, num_samples, nominal, agg_i, latencies, errors, samples,
                   deviations, daemon_process, topVars, pctVars, cmpVars, calcVars, smpVars, regVars, concVars>>

AggNext ==
    \/ StartDaemon
    \/ CliIteration \/ CliCalc
    \/ DaemonIteration \/ DaemonCalc
    \/ ProfilerIteration \/ ProfilerCalc
    \/ FilePathIteration \/ FilePathCalc

SpecAggregate == AggInit /\ [][AggNext]_vars

(***************************************************************************)
(* SpecConcurrent: the two concurrent harnesses.                           *)
(*   "clients"  DaemonPerformanceTester.benchmark_concurrent_clients       *)
(*   "renders"  RenderBenchmark.benchmark_concurrent_renders               *)
(* The main thread spawns the workers one by one, joins them one by one,   *)
(* then aggregates.  A client worker interleaves with the others at the    *)
(* reads and writes of the shared self.request_id and of the shared        *)
(* results list.  history is what each worker's sampler calls returned.    *)
(***************************************************************************)
MaxClients == 2
MaxOps == 2
MaxRequests == 4
WallTimes == {MaxOps * Durations.slow, 2 * MaxOps * Durations.slow}

RpcOutcomes ==
    {Reply("result", Durations.nominal), Reply("result", Durations.slow),
     Reply("rpc_error", Durations.nominal), Reply("parse_error", Durations.failed),
     Reply("empty", Durations.failed), Reply("exception", 0), Reply("hang", 0)}
RpcNominal ==
    IF nominal = "ok" THEN Reply("result", Durations.nominal)
    ELSE Reply("empty", Durations.failed)

RenderReplies ==
    {Reply("ok", Durations.nominal), Reply("ok", Durations.slow), Reply("exception", 0),
     Reply("hang", 0)}
RenderReplyNominal ==
    IF nominal = "ok" THEN Reply("ok", Durations.nominal) ELSE Reply("exception", 0)

\* A freshly started worker thread.
NewThread ==
    [pc |-> IF conc_kind = "renders" THEN "render"
            ELSE IF operations_per_client = 0 THEN "append" ELSE "build",
     i |-> 0, latencies |-> <<>>, errors |-> <<>>, tmp |-> 0, history |-> <<>>]

Terminated(t) == t.pc \in {"done", "died"}
\* A join that returns at once, whatever the thread is doing.
JoinNoWait(t) == TRUE
\* thread.join() returns once the thread has terminated, normally or by an
\* exception that was not caught.
join(t) == Terminated(t)

ConcInit ==
    /\ conc_kind \in {"clients", "renders"}
    /\ num_clients \in 0..MaxClients
    /\ operations_per_client \in IF conc_kind = "clients" THEN 0..MaxOps ELSE {1}
    /\ num_clients * operations_per_client <= MaxRequests
    /\ nominal \in {"ok", "fail"}
    /\ deviations = 0
    /\ daemon_process = "none"
    /\ threads = <<>>
    /\ results = <<>>
    /\ request_id = 1
    /\ issued_ids = {}
    /\ all_latencies = <<>>
    /\ all_errors = <<>>
    /\ total_test_time = 0
    /\ conc_summary = None
    /\ conc_pc = IF conc_kind = "clients" THEN "start" ELSE "spawn"
    /\ conc_i = 0
    /\ AggOnlyIdle /\ TopIdle /\ PctIdle /\ CmpIdle /\ CalcIdle /\ SmpIdle /\ RegIdle

\* "if not self.start_daemon(): return PerformanceMetrics(...)" of the concurrent
\* benchmark.
StartDaemonConcurrent ==
    /\ conc_pc = "start"
    /\ \E outcome \in StartOutcomes :
         /\ daemon_process' = start_daemon(outcome).daemon_process
         /\ IF start_daemon(outcome).ok
            THEN conc_pc' = "spawn" /\ conc_summary' = conc_summary
            ELSE /\ conc_pc' = "done"
                 /\ conc_summary' = FailedStart("Daemon_Concurrent_Clients", num_clients)
    /\ UNCHANGED <<conc_kind, num_clients, operations_per_client, threads, results,
                   request_id, issued_ids, all_latencies, all_errors, total_test_time,
                   conc_i, nominal, deviations, aggOnly, topVars, pctVars, cmpVars, calcVars, smpVars, regVars>>

\* One pass of "for client_id in range(num_clients)": create, record and start.
Spawn ==
    /\ conc_pc = "spawn" /\ conc_i < num_clients
    /\ threads' = Append(threads, NewThread)
    /\ conc_i' = conc_i + 1
    /\ UNCHANGED <<conc_kind, num_clients, operations_per_client, results, request_id,
                   issued_ids, all_latencies, all_errors, total_test_time, conc_summary,
                   conc_pc, nominal, deviations, daemon_process, aggOnly,
                   topVars, pctVars, cmpVars, calcVars, smpVars, regVars>>

\* The spawn loop is exhausted; the join loop begins.
SpawnEnd ==
    /\ conc_pc = "spawn" /\ conc_i = num_clients
    /\ conc_pc' = "join"
    /\ conc_i' = 0
    /\ UNCHANGED <<conc_kind, num_clients, operations_per_client, threads, results,
                   request_id, issued_ids, all_latencies, all_errors, total_test_time,
                   conc_summary, nominal, deviations, daemon_process, aggOnly,
                   topVars, pctVars, cmpVars, calcVars, smpVars, regVars>>

\* One pass of "for thread in threads: thread.join()".
Join ==
    /\ conc_pc = "join" /\ conc_i < Len(threads)
    /\ join(threads[conc_i + 1])
    /\ conc_i' = conc_i + 1
    /\ UNCHANGED <<conc_kind, num_clients, operations_per_client, threads, results,
                   request_id, issued_ids, all_latencies, all_errors, total_test_time,
                   conc_summary, conc_pc, nominal, deviations, daemon_process, aggOnly,
                   topVars, pctVars, cmpVars, calcVars, smpVars, regVars>>

\* The join loop is exhausted: end_time is read.
JoinEnd ==
    /\ conc_pc = "join" /\ conc_i = Len(threads)
    /\ total_test_time' \in WallTimes
    /\ conc_pc' = "aggregate"
    /\ UNCHANGED <<conc_kind, num_clients, operations_per_client, threads, results,
                   request_id, issued_ids, all_latencies, all_errors, conc_summary,
                   conc_i, nominal, deviations, daemon_process, aggOnly,
                   topVars, pctVars, cmpVars, calcVars, smpVars, regVars>>

SetThread(t, r) == [threads EXCEPT ![t] = r]

\* send_json_rpc builds the request: "id": self.request_id.
WorkerBuild(t) ==
    /\ threads[t].pc = "build"
    /\ threads' = SetThread(t, [threads[t] EXCEPT !.pc = "load"])
    /\ issued_ids' = issued_ids \cup
                       {[client |-> t - 1, op |-> threads[t].i, id |-> request_id]}
    /\ UNCHANGED <<conc_kind, num_clients, operations_per_client, results, request_id,
                   all_latencies, all_errors, total_test_time, conc_summary, conc_pc,
                   conc_i, nominal, deviations, daemon_process, aggOnly,
                   topVars, pctVars, cmpVars, calcVars, smpVars, regVars>>

\* "self.request_id += 1", the read.
WorkerLoad(t) ==
    /\ threads[t].pc = "load"
    /\ threads' = SetThread(t, [threads[t] EXCEPT !.pc = "store", !.tmp = request_id])
    /\ UNCHANGED <<conc_kind, num_clients, operations_per_client, results, request_id,
                   issued_ids, all_latencies, all_errors, total_test_time, conc_summary,
                   conc_pc, conc_i, nominal, deviations, daemon_process, aggOnly,
                   topVars, pctVars, cmpVars, calcVars, smpVars, regVars>>

\* "self.request_id += 1", the write; the value read is dead afterwards.
WorkerStore(t) ==
    /\ threads[t].pc = "store"
    /\ request_id' = threads[t].tmp + 1
    /\ threads' = SetThread(t, [threads[t] EXCEPT !.pc = "rpc", !.tmp = 0])
    /\ UNCHANGED <<conc_kind, num_clients, operations_per_client, results, issued_ids,
                   all_latencies, all_errors, total_test_time, conc_summary, conc_pc,
                   conc_i, nominal, deviations, daemon_process, aggOnly,
                   topVars, pctVars, cmpVars, calcVars, smpVars, regVars>>

\* The exchange with the daemon and the rest of the loop body of client_worker.
\* Reply "hang": the call never returns (the recv loop keeps getting chunks without
\* newline, each within the socket timeout); the worker stays in it.
\* The AttributeError of the error branch is not caught: the thread ends without
\* appending to results.
WorkerRpc(t) ==
    /\ threads[t].pc = "rpc"
    /\ \E o \in RpcOutcomes :
         /\ Allowed(o, RpcNominal)
         /\ deviations' = Spend(o, RpcNominal)
         /\ LET r == send_json_rpc(o.reply, o.d)
                me == threads[t]
                msg == IF r.success THEN "" ELSE error_msg(r.response)
                next_pc == IF msg = "AttributeError" THEN "died"
                           ELSE IF me.i + 1 = operations_per_client THEN "append"
                           ELSE "build"
            IN  IF o.reply = "hang"
                THEN threads' = SetThread(t, [me EXCEPT !.pc = "hung"])
                ELSE threads' = SetThread(t,
                    [me EXCEPT
                       !.pc = next_pc,
                       !.i = me.i + 1,
                       !.latencies = IF r.success THEN Append(me.latencies, r.duration_ms)
                                     ELSE me.latencies,
                       !.errors = IF r.success \/ msg = "AttributeError" THEN me.errors
                                  ELSE Append(me.errors, [client |-> t - 1, msg |-> msg]),
                       !.history = Append(me.history,
                                          Sample(r.duration_ms, r.success, r.success))])
    /\ UNCHANGED <<conc_kind, num_clients, operations_per_client, results, request_id,
                   issued_ids, all_latencies, all_errors, total_test_time, conc_summary,
                   conc_pc, conc_i, nominal, daemon_process, aggOnly,
                   topVars, pctVars, cmpVars, calcVars, smpVars, regVars>>

\* "results.append((latencies, errors))", the last statement of client_worker.
WorkerAppend(t) ==
    /\ threads[t].pc = "append"
    /\ results' = Append(results, [latencies |-> threads[t].latencies,
                                   errors |-> threads[t].errors])
    /\ threads' = SetThread(t, [threads[t] EXCEPT !.pc = "done"])
    /\ UNCHANGED <<conc_kind, num_clients, operations_per_client, request_id, issued_ids,
                   all_latencies, all_errors, total_test_time, conc_summary, conc_pc,
                   conc_i, nominal, deviations, daemon_process, aggOnly,
                   topVars, pctVars, cmpVars, calcVars, smpVars, regVars>>

\* render_worker: one request; the elapsed time goes to the shared render_times,
\* any exception to the shared errors.  Reply "hang": the socket has no timeout
\* and connect or recv never returns.
RenderWorker(t) ==
    /\ threads[t].pc = "render"
    /\ \E o \in RenderReplies :
         /\ Allowed(o, RenderReplyNominal)
         /\ deviations' = Spend(o, RenderReplyNominal)
         /\ IF o.reply = "hang"
            THEN /\ threads' = SetThread(t, [threads[t] EXCEPT !.pc = "hung"])
                 /\ UNCHANGED <<all_latencies, all_errors>>
            ELSE /\ all_latencies' = IF o.reply = "ok" THEN Append(all_latencies, o.d)
                                    ELSE all_latencies
                 /\ all_errors' = IF o.reply = "ok" THEN all_errors
                                 ELSE Append(all_errors,
                                             [client |-> t - 1, msg |-> "exception"])
                 /\ threads' = SetThread(t,
                        [threads[t] EXCEPT
                           !.pc = "done", !.i = 1,
                           !.history = <<Sample(o.d, o.reply = "ok", o.reply = "ok")>>])
    /\ UNCHANGED <<conc_kind, num_clients, operations_per_client, results, request_id,
                   issued_ids, total_test_time, conc_summary, conc_pc, conc_i, nominal,
                   daemon_process, aggOnly, topVars, pctVars, cmpVars, calcVars, smpVars, regVars>>

\* "for latencies, errors in results: extend ..." and the statistics block of
\* benchmark_concurrent_clients, then finally: stop_daemon.
Aggregate ==
    /\ conc_kind = "clients" /\ conc_pc = "aggregate"
    /\ all_latencies' = Flatten([k \in DOMAIN results |-> results[k].latencies])
    /\ all_errors' = Flatten([k \in DOMAIN results |-> results[k].errors])
    /\ IF all_latencies' # <<>> /\ total_test_time = 0
       THEN conc_pc' = "raised" /\ conc_summary' = conc_summary
       ELSE /\ conc_pc' = "done"
            /\ conc_summary' = Metrics("Daemon_Concurrent_Clients", all_latencies',
                                       all_errors', 1, total_test_time,
                                       num_clients * operations_per_client, num_clients)
    /\ daemon_process' = "stopped"
    /\ UNCHANGED <<conc_kind, num_clients, operations_per_client, threads, results,
                   request_id, issued_ids, total_test_time, conc_i, nominal, deviations,
                   aggOnly, topVars, pctVars, cmpVars, calcVars, smpVars, regVars>>

\* The dict benchmark_concurrent_renders returns.
AggregateRenders ==
    /\ conc_kind = "renders" /\ conc_pc = "aggregate"
    /\ conc_summary' =
         [num_threads |-> num_clients,
          total_time |-> total_test_time,
          avg_render_time |-> IF all_latencies # <<>> THEN mean(all_latencies) ELSE Zero,
          successful_renders |-> Len(all_latencies),
          errors |-> Len(all_errors),
          throughput |-> IF total_test_time > 0
                         THEN Rat(Len(all_latencies) * 1000, total_test_time) ELSE Zero]
    /\ conc_pc' = "done"
    /\ UNCHANGED <<conc_kind, num_clients, operations_per_client, threads, results,
                   request_id, issued_ids, all_latencies, all_errors, total_test_time,
                   conc_i, nominal, deviations, daemon_process, aggOnly,
                   topVars, pctVars, cmpVars, calcVars, smpVars, regVars>>

ConcNext ==
    \/ StartDaemonConcurrent
    \/ Spawn \/ SpawnEnd \/ Join \/ JoinEnd
    \/ \E t \in DOMAIN threads : WorkerBuild(t)
    \/ \E t \in DOMAIN threads : WorkerLoad(t)
    \/ \E t \in DOMAIN threads : WorkerStore(t)
    \/ \E t \in DOMAIN threads : WorkerRpc(t)
    \/ \E t \in DOMAIN threads : WorkerAppend(t)
    \/ \E t \in DOMAIN threads : RenderWorker(t)
    \/ Aggregate \/ AggregateRenders

SpecConcurrent == ConcInit /\ [][ConcNext]_vars

\* Both families of aggregators in one specification.
BenchInit == AggInit \/ ConcInit
BenchNext == AggNext \/ ConcNext
SpecBench == BenchInit /\ [][BenchNext]_vars

(***************************************************************************)
(* Properties of the summaries.                                            *)
(***************************************************************************)
IsMetrics(m) == m # None /\ "p50_latency_ms" \in DOMAIN m

OrderedStats(m) ==
    /\ RatLE(m.min_latency_ms, m.p50_latency_ms)
    /\ RatLE(m.p50_latency_ms, m.p95_latency_ms)
    /\ RatLE(m.p95_latency_ms, m.p99_latency_ms)
    /\ RatLE(m.p99_latency_ms, m.max_latency_ms)

ZeroStats(m) ==
    /\ m.avg_latency_ms = Zero /\ m.min_latency_ms = Zero /\ m.max_latency_ms = Zero
    /\ m.p50_latency_ms = Zero /\ m.p95_latency_ms = Zero /\ m.p99_latency_ms = Zero
    /\ m.throughput_ops_sec = Zero

\* The summary of the CLI or daemon sequential benchmark, once returned.
SequentialReturned == harness \in {"cli", "daemon"} /\ IsMetrics(summary)
\* The summary of benchmark_concurrent_clients, once returned.
ConcurrentReturned == conc_kind = "clients" /\ IsMetrics(conc_summary)

\* C5: every summary returned by the CLI and daemon benchmark_basic_operations and
\* by benchmark_concurrent_clients has min <= p50 <= p95 <= p99 <= max, and has
\* all latency statistics and the throughput equal to 0 when the list of
\* successful durations it was computed from is empty.
C5_OrderedOrZero ==
    /\ SequentialReturned =>
         /\ OrderedStats(summary)
         /\ (latencies = <<>> => ZeroStats(summary))
    /\ ConcurrentReturned =>
         /\ OrderedStats(conc_summary)
         /\ (all_latencies = <<>> => ZeroStats(conc_summary))

\* A merged summary of two workers in which the statistics are strictly apart.
C5_Witness ==
    /\ ConcurrentReturned
    /\ Len(results) >= 2
    /\ RatLT(conc_summary.min_latency_ms, conc_summary.p95_latency_ms)
    /\ RatLT(conc_summary.p95_latency_ms, conc_summary.p99_latency_ms)
    /\ RatLT(conc_summary.p99_latency_ms, conc_summary.max_latency_ms)

\* C6: in a returned summary, the durations the latency statistics were computed
\* from are those of successful samples only; the duration of a failed sample never
\* entered that list.
C6_SuccessfulOnly ==
    (agg_pc = "done" /\ summary # None) =>
        \A j \in DOMAIN samples : samples[j].counted => samples[j].success

Throughput(m) ==
    IF "throughput_ops_sec" \in DOMAIN m THEN m.throughput_ops_sec ELSE m.throughput

\* C7: when an aggregator (CLI, daemon, file-path render) has run all its
\* iterations and none of its samples succeeded, it returns a summary whose
\* throughput is 0; it does not raise.
C7_ZeroThroughputNoRaise ==
    (/\ harness \in {"cli", "daemon", "file_path"}
     /\ agg_pc \in {"done", "raised"}
     /\ num_samples > 0 /\ agg_i = num_samples /\ ~ProgressRaises
     /\ agg_exc \notin {"AttributeError", "Exception"}
     /\ latencies = <<>>)
    => (agg_pc = "done" /\ summary # None /\ Throughput(summary) = Zero)

SuccessfulDurations(t) ==
    LET ok == SelectSeq(t.history, LAMBDA x : x.success)
    IN  [j \in DOMAIN ok |-> ok[j].duration]
\* The concatenation of all workers' successful durations.
Pooled == Flatten([t \in DOMAIN threads |-> SuccessfulDurations(threads[t])])

\* C8: the merged summary's p50, p95 and p99 are those of the concatenation of
\* all workers' successful durations.
C8_PooledPercentiles ==
    (ConcurrentReturned /\ Pooled # <<>>) =>
        /\ conc_summary.p50_latency_ms = median(Pooled)
        /\ conc_summary.p95_latency_ms = _percentile(Pooled, 95)
        /\ conc_summary.p99_latency_ms = _percentile(Pooled, 99)

\* C9: once the main thread has left the join loop (it is about to read the
\* workers' results, or has read them), every worker asked for has been spawned
\* and every spawned worker has terminated.
C9_JoinBarrier ==
    conc_pc \in {"aggregate", "done"} =>
        /\ \A t \in DOMAIN threads : Terminated(threads[t])
        /\ conc_pc = "aggregate" => Len(threads) = num_clients

\* Aggregation is about to read after two workers ended, one normally and one by
\* an uncaught exception.
C9_Witness ==
    /\ conc_pc = "aggregate"
    /\ \E t \in DOMAIN threads : threads[t].pc = "done" /\ threads[t].i > 0
    /\ \E t \in DOMAIN threads : threads[t].pc = "died"

SamplesTaken == Sum([t \in DOMAIN threads |-> Len(threads[t].history)])

\* C10: when every worker ran to its end, the sample count of the merged summary
\* equals the number of samples the workers took, successful or failed.
C10_CountsEverySample ==
    (/\ ConcurrentReturned
     /\ Len(threads) = num_clients
     /\ \A t \in DOMAIN threads : threads[t].pc = "done")
    => conc_summary.operation_count = SamplesTaken

(***************************************************************************)
(* Properties of find_matching_results.                                    *)
(***************************************************************************)
DaemonNames == {daemon_results[j].name : j \in DOMAIN daemon_results}
\* The CLI results whose name also occurs among the daemon results, in order.
MatchedCli == SelectSeq(cli_results, LAMBDA r : r.name \in DaemonNames)

BothMetrics(r) == {"avg_latency_ms", "throughput_ops_sec"} \subseteq DOMAIN r.metrics

\* C12: a matched test that carries both latency and throughput in both modes gets
\* one comparison per metric: one with the latency ratio cli / daemon and one with
\* the throughput ratio daemon / cli.
C12_OneResultPerMetric ==
    cmp_pc = "done" =>
        \A i \in DOMAIN cli_results :
            LET c == cli_results[i]
            IN  (c.name \in DaemonNames /\ BothMetrics(c) /\ BothMetrics(daemon_by_name[c.name]))
                =>
                LET d == daemon_by_name[c.name]
                    mine == {j \in DOMAIN comparisons : comparisons[j].cli = c}
                IN  /\ \E j \in mine :
                         comparisons[j].improvement_ratio =
                             Rat(c.metrics["avg_latency_ms"], d.metrics["avg_latency_ms"])
                    /\ \E j \in mine :
                         comparisons[j].improvement_ratio =
                             Rat(d.metrics["throughput_ops_sec"], c.metrics["throughput_ops_sec"])

(***************************************************************************)
(* PerformanceComparison._calculate_comparison of benchmark_v14.py: the    *)
(* comparison of the CLI summary (baseline) with the daemon summary        *)
(* (candidate) that run_basic_comparison returns.  Memory readings are not *)
(* modelled, so memory_improvement_percent and memory_target are left out. *)
(***************************************************************************)
RatSub(a, b) == Rat(a.n * b.d - b.n * a.d, a.d * b.d)
\* a / b for b > 0
RatDiv(a, b) == Rat(a.n * b.d, a.d * b.n)
RatTimes(a, k) == Rat(a.n * k, a.d)

LATENCY_TARGET_MS == [n |-> 21, d |-> 10]
THROUGHPUT_TARGET_OPS_SEC == 1000
IMPROVEMENT_TARGET_PERCENT == 700

ZeroDivisionError == [raised |-> "ZeroDivisionError"]

\* _calculate_comparison; ZeroDivisionError when a division by a zero daemon
\* latency is evaluated.
_calculate_comparison(cli, daemon) ==
    IF RatLT(Zero, cli.avg_latency_ms) /\ daemon.avg_latency_ms = Zero
    THEN ZeroDivisionError
    ELSE
    LET improvement_factor ==
            IF RatLT(Zero, cli.avg_latency_ms)
            THEN RatDiv(cli.avg_latency_ms, daemon.avg_latency_ms) ELSE Zero
        latency_improvement ==
            IF RatLT(Zero, cli.avg_latency_ms)
            THEN RatTimes(RatDiv(RatSub(cli.avg_latency_ms, daemon.avg_latency_ms),
                                 cli.avg_latency_ms), 100)
            ELSE Zero
        throughput_improvement ==
            IF RatLT(Zero, cli.throughput_ops_sec)
            THEN RatTimes(RatDiv(RatSub(daemon.throughput_ops_sec, cli.throughput_ops_sec),
                                 cli.throughput_ops_sec), 100)
            ELSE Zero
    IN  [cli_metrics |-> cli,
         daemon_metrics |-> daemon,
         improvement_factor |-> improvement_factor,
         latency_improvement_percent |-> latency_improvement,
         throughput_improvement_percent |-> throughput_improvement,
         targets_met |->
           [latency_target |-> RatLT(daemon.avg_latency_ms, LATENCY_TARGET_MS),
            throughput_target |->
                RatLT(RatInt(THROUGHPUT_TARGET_OPS_SEC), daemon.throughput_ops_sec),
            improvement_target |->
                RatLT(Rat(IMPROVEMENT_TARGET_PERCENT, 100), improvement_factor)]]

\* The summaries run_basic_comparison can hand over: the aggregators' statistics
\* over up to MaxCalcLen successful sequences out of MaxCalcLen.
MaxCalcLen == 2
CalcLatencies == SeqsUpTo({Durations.nominal, Durations.slow, 10}, MaxCalcLen)
FailedSequences(lat, op) ==
    [k \in 1..(MaxCalcLen - Len(lat)) |-> [op |-> op, msg |-> "Unknown error"]]
CliSummaries ==
    {Metrics("CLI_Basic_Operations", lat, FailedSequences(lat, CliOperations[1]),
             Len(CliOperations), Sum(lat), MaxCalcLen, 1) : lat \in CalcLatencies}
DaemonSummaries ==
    {Metrics("Daemon_Basic_Operations", lat, FailedSequences(lat, DaemonOperations[1]),
             1, Sum(lat), MaxCalcLen, 1) : lat \in CalcLatencies}

CalcInit ==
    /\ cli_metrics \in CliSummaries
    /\ daemon_metrics \in DaemonSummaries
    /\ comparison = None
    /\ calc_pc = "start"
    /\ TopIdle /\ PctIdle /\ CmpIdle /\ SmpIdle /\ RegIdle /\ AggIdle /\ ConcIdle

\* "return self._calculate_comparison(cli_metrics, daemon_metrics)"
CalculateComparison ==
    /\ calc_pc = "start"
    /\ LET r == _calculate_comparison(cli_metrics, daemon_metrics)
       IN  IF r = ZeroDivisionError
           THEN calc_pc' = "raised" /\ comparison' = comparison
           ELSE calc_pc' = "done" /\ comparison' = r
    /\ UNCHANGED <<cli_metrics, daemon_metrics, topVars, pctVars, cmpVars, smpVars, regVars, aggVars,
                   concVars>>

CalcNext == CalculateComparison

\* Both comparison routines in one specification.
ComparisonInit == CmpInit \/ CalcInit
ComparisonNext == CmpNext \/ CalcNext
SpecComparison == ComparisonInit /\ [][ComparisonNext]_vars

\* The degenerate cases of a comparison of two summaries: the baseline value is
\* zero, or one of the two summaries has no sample.
Degenerate(cli, daemon) ==
    \/ cli.avg_latency_ms = Zero
    \/ cli.operation_count = 0
    \/ daemon.operation_count = 0

\* C13: the improvement ratio is null exactly in the degenerate cases, and no
\* comparison divides by zero.  For find_matching_results: a comparison whose
\* baseline (CLI) value is zero has no ratio, and one whose two values are both
\* non-zero has a ratio.  For _calculate_comparison: it returns, with no ratio when
\* the baseline latency is zero or either summary has no sample, and with a ratio
\* otherwise.
C13_NullExactlyWhenDegenerate ==
    /\ \A j \in DOMAIN comparisons :
         LET c == comparisons[j]
             m == ComparedMetric(c)
         IN  m # "none" =>
               /\ c.cli.metrics[m] = 0 => c.improvement_ratio = None
               /\ (c.cli.metrics[m] # 0 /\ c.daemon.metrics[m] # 0)
                    => c.improvement_ratio # None
    /\ calc_pc # "raised"
    /\ (calc_pc = "done" /\ comparison # None) =>
         (Degenerate(cli_metrics, daemon_metrics) <=> comparison.improvement_factor = None)

(***************************************************************************)
(* C14: absence of a baseline.                                             *)
(***************************************************************************)
\* The baseline has nothing for this metric of this test: no baseline document, no
\* entry of that name, or no entry of that name carrying the metric.
Absent(test, metric) ==
    \/ baseline = None
    \/ ~\E j \in DOMAIN baseline.results :
            /\ baseline.results[j].name = test
            /\ metric \in DOMAIN baseline.results[j].metrics

\* The value of the first baseline entry of that name carrying the metric.
FirstBaseline(test, metric) ==
    LET j == CHOOSE j \in DOMAIN baseline.results :
                /\ baseline.results[j].name = test
                /\ metric \in DOMAIN baseline.results[j].metrics
                /\ \A i \in 1..(j - 1) :
                     ~(/\ baseline.results[i].name = test
                       /\ metric \in DOMAIN baseline.results[i].metrics)
    IN  baseline.results[j].metrics[metric].value

\* The records due for the items k..end: nothing for a metric without baseline, the
\* threshold decision for every other one.
RECURSIVE RecordsDue(_)
RecordsDue(k) ==
    IF k > Len(MetricItems(benchmark_results, 1)) THEN <<>>
    ELSE LET at == MetricItems(benchmark_results, 1)[k]
             result == benchmark_results[at.r]
             item == result.metrics[at.m]
         IN  (IF Absent(result.name, item.key) THEN <<>>
              ELSE CheckMetric(result, item, FirstBaseline(result.name, item.key)))
             \o RecordsDue(k + 1)

\* C14: absence of a baseline is never an error.  Without a baseline document the
\* detection returns the empty list; a metric without baseline entry or value is
\* skipped without a record, every metric that has a baseline value is still
\* evaluated, and the detection raises only on a metric that has a baseline value.
C14_AbsentBaselineSkipped ==
    /\ (baseline = None /\ reg_pc # "start") => (reg_pc = "done" /\ regressions = <<>>)
    /\ reg_pc = "raised" =>
         LET at == MetricItems(benchmark_results, 1)[reg_k]
             result == benchmark_results[at.r]
         IN  ~Absent(result.name, result.metrics[at.m].key)
    /\ reg_pc = "done" =>
         /\ regressions = RecordsDue(1)
         /\ \A k \in DOMAIN MetricItems(benchmark_results, 1) :
              LET at == MetricItems(benchmark_results, 1)[k]
                  result == benchmark_results[at.r]
              IN  Absent(result.name, result.metrics[at.m].key)
                    => ~HasRecord(result.name, result.metrics[at.m].key)

\* C14 witness: the detection returned with a baseline document that lacks one
\* metric of the current results, after recording a regression for a later metric.
C14_Witness ==
    /\ reg_pc = "done"
    /\ baseline # None
    /\ \E k1, k2 \in DOMAIN MetricItems(benchmark_results, 1) :
         LET a1 == MetricItems(benchmark_results, 1)[k1]
             a2 == MetricItems(benchmark_results, 1)[k2]
             r1 == benchmark_results[a1.r]
             r2 == benchmark_results[a2.r]
         IN  /\ k1 < k2
             /\ Absent(r1.name, r1.metrics[a1.m].key)
             /\ ~Absent(r2.name, r2.metrics[a2.m].key)
             /\ HasRecord(r2.name, r2.metrics[a2.m].key)

(***************************************************************************)
(* SpecSampler: the samplers called one at a time.                         *)
(*   run_cli_command  CLIPerformanceTester (benchmark_v14.py)              *)
(*   send_json_rpc    DaemonPerformanceTester (benchmark_v14.py)           *)
(*   run_command      GoxelBenchmark (examples/performance_demos)          *)
(* The environment answers a call with a reply after an elapsed time d.    *)
(***************************************************************************)
MaxCalls == 2

CalledProcessError == [raised |-> "CalledProcessError"]
FileNotFoundError == [raised |-> "FileNotFoundError"]

\* GoxelBenchmark.run_command: subprocess.run(cmd, capture_output=True, check=True)
\* without timeout, returning the elapsed milliseconds.
run_command(reply, d) ==
    IF reply = "ok" THEN [duration_ms |-> d]
    ELSE IF reply = "exit" THEN CalledProcessError
    ELSE FileNotFoundError

Samplers == {"run_cli_command", "send_json_rpc", "run_command"}

\* What the environment can answer to one call of each sampler.
SamplerReplies(s) ==
    IF s = "run_cli_command" THEN {"ok", "exit", "timeout", "exception"}
    ELSE IF s = "send_json_rpc"
    THEN {"result", "rpc_error", "parse_error", "empty", "refused", "timeout", "invalid_json"}
    ELSE {"ok", "exit", "exception"}

\* The time a call really took: the timeout bound when it timed out.
Elapsed(reply) ==
    IF reply = "timeout" THEN {TimeoutMs} ELSE {Durations.nominal, Durations.slow}

Call(reply, d, outcome) == [reply |-> reply, d |-> d, outcome |-> outcome]

SamplerInit ==
    /\ sampler \in Samplers
    /\ calls = <<>>
    /\ smp_pc = "ready"
    /\ smp_exc = ""
    /\ TopIdle /\ PctIdle /\ CmpIdle /\ CalcIdle /\ RegIdle /\ AggIdle /\ ConcIdle

RunCliCommand ==
    /\ sampler = "run_cli_command" /\ smp_pc = "ready" /\ Len(calls) < MaxCalls
    /\ \E reply \in SamplerReplies(sampler) : \E d \in Elapsed(reply) :
         calls' = Append(calls, Call(reply, d, run_cli_command(reply, d)))
    /\ UNCHANGED <<sampler, smp_pc, smp_exc, topVars, pctVars, cmpVars, calcVars, regVars, aggVars,
                   concVars>>

SendJsonRpc ==
    /\ sampler = "send_json_rpc" /\ smp_pc = "ready" /\ Len(calls) < MaxCalls
    /\ \E reply \in SamplerReplies(sampler) : \E d \in Elapsed(reply) :
         calls' = Append(calls, Call(reply, d, send_json_rpc(reply, d)))
    /\ UNCHANGED <<sampler, smp_pc, smp_exc, topVars, pctVars, cmpVars, calcVars, regVars, aggVars,
                   concVars>>

RunCommand ==
    /\ sampler = "run_command" /\ smp_pc = "ready" /\ Len(calls) < MaxCalls
    /\ \E reply \in SamplerReplies(sampler) : \E d \in Elapsed(reply) :
         LET r == run_command(reply, d)
         IN  IF "raised" \in DOMAIN r
             THEN smp_pc' = "raised" /\ smp_exc' = r.raised /\ calls' = calls
             ELSE smp_pc' = smp_pc /\ smp_exc' = smp_exc
                  /\ calls' = Append(calls, Call(reply, d, r))
    /\ UNCHANGED <<sampler, topVars, pctVars, cmpVars, calcVars, regVars, aggVars, concVars>>

SamplerNext == RunCliCommand \/ SendJsonRpc \/ RunCommand

SpecSampler == SamplerInit /\ [][SamplerNext]_vars

\* The replies that are an exception, a non-zero exit or a timeout of the operation.
OperationFailures == {"exit", "timeout", "exception", "refused", "invalid_json"}

\* C15 as claimed: a sampler call never raises; an exception, a non-zero exit or a
\* timeout comes back as an outcome with success false and an error detail.
\* Violated by GoxelBenchmark.run_command, which lets CalledProcessError out.
C15_SamplerNeverRaises ==
    /\ smp_pc # "raised"
    /\ \A j \in DOMAIN calls :
         calls[j].reply \in OperationFailures =>
            /\ "success" \in DOMAIN calls[j].outcome
            /\ ~calls[j].outcome.success
            /\ sampler = "run_cli_command" => calls[j].outcome.msg # ""
            /\ sampler = "send_json_rpc" => calls[j].outcome.response.error # None

\* Some sampler call of the run came back failed.
SequentialFailure == \E j \in DOMAIN samples : ~samples[j].success
ConcurrentFailure ==
    \E t \in DOMAIN threads : \E j \in DOMAIN threads[t].history : ~threads[t].history[j].success

\* C16 as claimed: a failed sample is absorbed by the aggregation as data.  No
\* exception caused by a failed sample leaves the sequential aggregator or ends a
\* worker of the concurrent one, and the returned summary shows the failure in its
\* error list and in a success rate below 100.  Violated: the error string that
\* send_json_rpc returns for a transport exception makes the caller's
\* .get("message") raise AttributeError.
C16_FailedSampleAbsorbed ==
    /\ agg_exc # "AttributeError"
    /\ \A t \in DOMAIN threads : threads[t].pc # "died"
    /\ (SequentialReturned /\ SequentialFailure) =>
         /\ summary.errors # <<>>
         /\ RatLT(summary.success_rate_percent, RatInt(100))
    /\ (ConcurrentReturned /\ ConcurrentFailure) =>
         /\ conc_summary.errors # <<>>
         /\ RatLT(conc_summary.success_rate_percent, RatInt(100))

\* C17 as claimed: a reply that is invalid JSON or that carries an RPC error
\* object, whatever its code, is a failed sample; only a reply carrying a result is
\* a successful one.  Violated: send_json_rpc reports success for every error
\* object whose code is not -32700.
C17_ErrorReplyFails ==
    sampler = "send_json_rpc" =>
        \A j \in DOMAIN calls :
            /\ calls[j].reply \in {"invalid_json", "rpc_error", "parse_error"}
                 => ~calls[j].outcome.success
            /\ calls[j].outcome.success => calls[j].reply = "result"

\* C18 as claimed: a call that timed out is a failed sample whose duration is the
\* timeout bound (30 s in process mode, 10 s in socket mode), and a sample has the
\* timeout bound as its duration only when the call timed out.  Violated: the
\* socket-mode bound is DEFAULT_TIMEOUT (30 s), and send_json_rpc reports it as the
\* duration of every transport exception, timed out or not.
C18_TimeoutDuration ==
    sampler \in {"run_cli_command", "send_json_rpc"} =>
        LET bound == IF sampler = "run_cli_command" THEN 30 * 1000 ELSE 10 * 1000
        IN  \A j \in DOMAIN calls :
                /\ calls[j].reply = "timeout" =>
                     /\ ~calls[j].outcome.success
                     /\ calls[j].outcome.duration_ms = bound
                /\ calls[j].outcome.duration_ms = TimeoutMs => calls[j].reply = "timeout"

\* What a worker's history holds for a call whose connection could not be made.
RefusedSample ==
    IF conc_kind = "clients"
    THEN Sample(send_json_rpc("refused", 0).duration_ms, FALSE, FALSE)
    ELSE Sample(0, FALSE, FALSE)

\* The worker made calls and none of them got a connection.
CannotConnect(t) ==
    /\ threads[t].history # <<>>
    /\ \A j \in DOMAIN threads[t].history : threads[t].history[j] = RefusedSample

\* C19 as claimed: in a returned concurrent summary, a worker that could not
\* establish its connection has contributed no sample to the merged latencies and
\* is recorded in the merged errors.  Violated by client_worker: the worker ends by
\* AttributeError before it records anything.
C19_UnconnectedWorkerRecorded ==
    (conc_pc = "done" /\ conc_summary # None) =>
        \A t \in DOMAIN threads :
            CannotConnect(t) =>
                /\ threads[t].latencies = <<>>
                /\ \A j \in DOMAIN all_latencies : all_latencies[j] # RefusedSample.duration
                /\ \E e \in DOMAIN all_errors : all_errors[e].client = t - 1

\* C20 as claimed: when a benchmark run that spawned the daemon process has
\* returned to its caller, normally or by an exception, the process has been
\* stopped.  Violated: when start_daemon spawned the process and did not see the
\* socket in time, the benchmark returns without stop_daemon.
C20_DaemonStoppedOnReturn ==
    (agg_pc \in {"done", "raised"} /\ conc_pc \in {"done", "raised"})
        => daemon_process # "running"

\* C26 as claimed: the workers share no mutable state, so no interleaving loses or
\* duplicates an update: every request issued during the run carries its own id,
\* and the request counter has advanced once per request issued.  Violated:
\* self.request_id is read and incremented by every worker without a lock.
C26_NoSharedUpdateLost ==
    /\ \A a, b \in issued_ids : a.id = b.id => a = b
    /\ (\A t \in DOMAIN threads : threads[t].pc \in {"build", "append", "done", "died"})
         => request_id = 1 + Cardinality(issued_ids)

\* C29 as claimed: for every positive iteration count N the CLI and the daemon
\* benchmark_basic_operations run the sampler sequence exactly N times and then
\* return a summary, unless the daemon could not be started.  (The AttributeError
\* of C16 is left aside here.)  Violated:
\* for N below 10 the progress line divides by num_samples // 10 = 0 in the first
\* iteration.
C29_RunsExactlyN ==
    (harness \in {"cli", "daemon"} /\ num_samples > 0) =>
        /\ agg_pc = "raised" => agg_exc = "AttributeError"
        /\ (agg_pc = "done" /\ (harness = "cli" \/ daemon_process = "stopped"))
             => (summary # None /\ agg_i = num_samples)

C25_HungWorkerAbandoned ==
    /\ (conc_pc = "join" /\ conc_i < Len(threads) /\ threads[conc_i + 1].pc = "hung")
         => ENABLED Join
    /\ (conc_pc = "done" /\ conc_kind = "clients" /\ conc_summary # None) =>
         \A t \in DOMAIN threads :
            threads[t].pc = "hung" =>
               \A j \in DOMAIN threads[t].latencies :
                  \E k \in DOMAIN all_latencies : all_latencies[k] = threads[t].latencies[j]

(***************************************************************************)
(* The receive side of the socket-mode request routines.                   *)
(*   send_json_rpc    tests/performance/benchmark_v14.py                   *)
(*   send_request     tests/test_json_rpc_integration.py                   *)
(*   ci_send_request  tests/test_daemon_ci.py (GoxelDaemonCITest)          *)
(* A byte is an integer; the service's response is the JSON text 1..n      *)
(* followed by the newline.  A stream socket may hand the bytes over in    *)
(* any split, so recv returns any non-empty prefix of what is still to     *)
(* come (the buffer sizes 4096 and 8192 exceed every response modelled).   *)
(***************************************************************************)
MaxPayload == 4

Newline == 0

RxRoutines == {"send_json_rpc", "send_request", "ci_send_request"}

\* The response line the service writes for a JSON text of n bytes.
ResponseLine(n) == [k \in 1..(n + 1) |-> IF k <= n THEN k ELSE Newline]

HasNewline(bytes) == \E k \in DOMAIN bytes : bytes[k] = Newline

\* bytes.strip(): leading and trailing whitespace removed.
RECURSIVE Strip(_)
Strip(bytes) ==
    IF bytes = <<>> THEN <<>>
    ELSE IF Head(bytes) = Newline THEN Strip(Tail(bytes))
    ELSE IF bytes[Len(bytes)] = Newline THEN Strip(SubSeq(bytes, 1, Len(bytes) - 1))
    ELSE bytes

RxFailure(why) == [ok |-> FALSE, error |-> why, value |-> <<>>]
RxParsed(text) == [ok |-> TRUE, error |-> "", value |-> text]

\* json.loads: a proper prefix of a JSON object is not a JSON text.
Loads(text) ==
    IF text = Strip(rx_message) THEN RxParsed(text) ELSE RxFailure("JSONDecodeError")

RecvInit ==
    /\ rx_routine \in RxRoutines
    /\ \E n \in 1..MaxPayload : rx_message = ResponseLine(n)
    /\ peer_end \in {"close", "stall"}
    \* the peer delivers the whole line, or only a part of it
    /\ \E sent \in 0..Len(rx_message) : wire = SubSeq(rx_message, 1, sent)
    /\ response_data = <<>>
    /\ rx_eof = FALSE
    /\ rx_pc = "recv"
    /\ rx_response = None
    /\ StopIdle
    /\ EvalIdle
    /\ RunIdle
    /\ BaseIdle

\* One turn of `while True: chunk = sock.recv(4096) ...`.
RecvChunk ==
    /\ rx_pc = "recv"
    /\ rx_routine \in {"send_json_rpc", "send_request"}
    /\ IF wire # <<>>
       THEN \E k \in 1..Len(wire) :
                LET chunk == SubSeq(wire, 1, k) IN
                /\ wire' = SubSeq(wire, k + 1, Len(wire))
                /\ response_data' = response_data \o chunk
                /\ rx_pc' = IF HasNewline(chunk) THEN "parse" ELSE "recv"
                /\ UNCHANGED <<rx_eof, rx_response>>
       ELSE IF peer_end = "close"
       THEN \* recv returns b"": `if not chunk: break`
            /\ rx_eof' = TRUE
            /\ rx_pc' = "parse"
            /\ UNCHANGED <<wire, response_data, rx_response>>
       ELSE \* socket.timeout, caught by `except Exception`
            /\ rx_pc' = "done"
            /\ rx_response' = RxFailure("timeout")
            /\ UNCHANGED <<wire, response_data, rx_eof>>
    /\ UNCHANGED <<rx_routine, rx_message, peer_end, stopVars, evalVars, runVars, baseVars>>

\* `response_data = self.sock.recv(8192)`, once.
CiRecvOnce ==
    /\ rx_pc = "recv"
    /\ rx_routine = "ci_send_request"
    /\ IF wire # <<>>
       THEN \E k \in 1..Len(wire) :
                /\ wire' = SubSeq(wire, k + 1, Len(wire))
                /\ response_data' = SubSeq(wire, 1, k)
                /\ rx_pc' = "parse"
                /\ UNCHANGED <<rx_eof, rx_response>>
       ELSE IF peer_end = "close"
       THEN \* `if not response_data: return {"error": ...}`
            /\ rx_eof' = TRUE
            /\ rx_pc' = "done"
            /\ rx_response' = RxFailure("No response received")
            /\ UNCHANGED <<wire, response_data>>
       ELSE /\ rx_pc' = "done"
            /\ rx_response' = RxFailure("timeout")
            /\ UNCHANGED <<wire, response_data, rx_eof>>
    /\ UNCHANGED <<rx_routine, rx_message, peer_end, stopVars, evalVars, runVars, baseVars>>

\* decode, strip, json.loads; the empty string is not handed to json.loads
\* by the two looping routines.
ParseResponse ==
    /\ rx_pc = "parse"
    /\ LET response_str == Strip(response_data) IN
       rx_response' = IF response_str = <<>> /\ rx_routine = "send_json_rpc"
                         THEN RxFailure("")
                      ELSE IF response_str = <<>> /\ rx_routine = "send_request"
                         THEN RxFailure("Empty response received")
                      ELSE Loads(response_str)
    /\ rx_pc' = "done"
    /\ UNCHANGED <<rx_routine, rx_message, peer_end, wire, response_data, rx_eof, stopVars,
                   evalVars, runVars, baseVars>>

RecvNext == RecvChunk \/ CiRecvOnce \/ ParseResponse

SpecRecv == RecvInit /\ [][RecvNext]_vars

\* C28: a response is parsed only once its newline has arrived or the peer
\* has closed the connection, whatever the split across recv calls, and a
\* newline-terminated payload is taken as the one complete response.
C28_NeverParsesPartial ==
    /\ (rx_pc = "parse" => (HasNewline(response_data) \/ rx_eof))
    /\ (rx_pc = "done" /\ HasNewline(response_data))
         => rx_response = RxParsed(Strip(rx_message))

(***************************************************************************)
(* stop_daemon, three copies:                                              *)
(*   stop_daemon                          scripts/run_benchmarks.py        *)
(*   DaemonPerformanceTester.stop_daemon  tests/performance/benchmark_v14  *)
(*   GoxelJSONRPCTester.stop_daemon       tests/test_json_rpc_integration  *)
(* The process is the one the Popen handle refers to.  On SIGTERM it       *)
(* exits within the five seconds or it does not; when it exits on its own  *)
(* it may remove any of its files.  SIGKILL ends it without any cleanup.   *)
(***************************************************************************)
StopRoutines == {"stop_daemon", "DaemonPerformanceTester.stop_daemon",
                 "GoxelJSONRPCTester.stop_daemon"}

\* The files the service was started with: --socket, --pid-file, --log-file.
ServiceFiles(routine) ==
    CASE routine = "stop_daemon" -> {"socket", "pid"}
      [] routine = "DaemonPerformanceTester.stop_daemon" -> {"socket", "pid", "log"}
      [] OTHER -> {"socket"}

UnlinkedNothing(routine) == {}

\* The paths the routine unlinks after the process is gone.
Unlinked(routine) ==
    CASE routine = "stop_daemon" -> {"pid", "socket"}
      [] routine = "DaemonPerformanceTester.stop_daemon" -> {"socket", "pid", "log"}
      [] OTHER -> {"socket"}

StopInit ==
    /\ stop_routine \in StopRoutines
    /\ proc \in {"none", "running", "exited"}
    /\ files \in SUBSET ServiceFiles(stop_routine)
    /\ stop_log = <<>>
    /\ stop_pc = "start"
    /\ RecvIdle
    /\ EvalIdle
    /\ RunIdle
    /\ BaseIdle

\* `if proc:` ... `proc.terminate()`
Terminate ==
    /\ stop_pc = "start"
    /\ IF proc = "none"
       THEN stop_pc' = "cleanup" /\ UNCHANGED stop_log
       ELSE stop_pc' = "wait" /\ stop_log' = Append(stop_log, "terminate")
    /\ UNCHANGED <<stop_routine, proc, files, recvVars, evalVars, runVars, baseVars>>

\* `proc.wait(timeout=5)` returns: the process has exited, having removed
\* some of its files if it was still running.
WaitReturns ==
    /\ stop_pc = "wait"
    /\ proc' = "exited"
    /\ IF proc = "running"
       THEN \E removed \in SUBSET files : files' = files \ removed
       ELSE files' = files
    /\ stop_pc' = "cleanup"
    /\ UNCHANGED <<stop_routine, stop_log, recvVars, evalVars, runVars, baseVars>>

\* `except subprocess.TimeoutExpired:` the process ignored the request.
WaitExpires ==
    /\ stop_pc = "wait"
    /\ proc = "running"
    /\ stop_log' = Append(stop_log, "expired")
    /\ stop_pc' = "kill"
    /\ UNCHANGED <<stop_routine, proc, files, recvVars, evalVars, runVars, baseVars>>

\* `proc.kill()`
Kill ==
    /\ stop_pc = "kill"
    /\ stop_log' = Append(stop_log, "kill")
    /\ stop_pc' = "wait_killed"
    /\ UNCHANGED <<stop_routine, proc, files, recvVars, evalVars, runVars, baseVars>>

\* `proc.wait()` after the kill.
WaitKilled ==
    /\ stop_pc = "wait_killed"
    /\ proc' = "exited"
    /\ stop_pc' = "cleanup"
    /\ UNCHANGED <<stop_routine, files, stop_log, recvVars, evalVars, runVars, baseVars>>

\* The unlink of every path that exists (`if ...exists()` or
\* `except FileNotFoundError: pass`), then the return.
CleanUp ==
    /\ stop_pc = "cleanup"
    /\ files' = files \ Unlinked(stop_routine)
    /\ stop_log' = IF files \cap Unlinked(stop_routine) # {}
                     THEN Append(stop_log, "unlink") ELSE stop_log
    /\ stop_pc' = "returned"
    /\ UNCHANGED <<stop_routine, proc, recvVars, evalVars, runVars, baseVars>>

StopNext == Terminate \/ WaitReturns \/ WaitExpires \/ Kill \/ WaitKilled \/ CleanUp

SpecStop == StopInit /\ [][StopNext]_vars

\* C27: the force kill comes only directly after a terminate request and
\* the expiry of the bounded wait, and once stop_daemon has returned the
\* process has exited and neither its socket nor its pid file exists.
C27_TerminateWaitKill ==
    /\ \A i \in DOMAIN stop_log :
         stop_log[i] = "kill" => /\ i = 3
                                 /\ stop_log[1] = "terminate"
                                 /\ stop_log[2] = "expired"
    /\ stop_pc = "returned" => /\ proc # "running"
                               /\ files \cap {"socket", "pid"} = {}

C27_Witness ==
    /\ stop_pc = "returned"
    /\ stop_log = <<"terminate", "expired", "kill", "unlink">>
    /\ stop_routine = "GoxelJSONRPCTester.stop_daemon"

(***************************************************************************)
(* evaluate_results (scripts/run_benchmarks.py).                           *)
(* A result is [success, metrics]; metrics is a dict from metric names to  *)
(* numbers.  Latency and improvement factor are counted in tenths, so the  *)
(* targets 2.1 ms and 7.0x are the integers 21 and 70.  An entry of        *)
(* details is [metric, passed]; its "target" and "actual" fields are       *)
(* display strings and are left out.                                       *)
(***************************************************************************)
MaxEvalLen == 2
MaxMetrics == 4

TARGETS == [latency_ms |-> 21, throughput_ops |-> 1000, memory_mb |-> 50,
            improvement_factor |-> 70]

EvaluatedKeys == {"avg_latency_ms", "throughput_ops_sec", "memory_peak_mb",
                  "improvement_factor"}

\* The values a metric takes here: at the target and one step beyond it.
MetricValues(key) ==
    CASE key = "avg_latency_ms" -> {TARGETS.latency_ms, TARGETS.latency_ms + 1}
      [] key = "throughput_ops_sec" -> {TARGETS.throughput_ops - 1, TARGETS.throughput_ops}
      [] key = "memory_peak_mb" -> {TARGETS.memory_mb, TARGETS.memory_mb + 1}
      [] OTHER -> {TARGETS.improvement_factor - 1, TARGETS.improvement_factor}

MetricDicts ==
    UNION {{m \in [keys -> UNION {MetricValues(k) : k \in keys}] :
              \A k \in keys : m[k] \in MetricValues(k)} : keys \in SUBSET EvaluatedKeys}

\* `passed = ...` of each of the four checks.
Passed(metrics, key) ==
    CASE key = "avg_latency_ms" -> metrics[key] <= TARGETS.latency_ms
      [] key = "throughput_ops_sec" -> metrics[key] >= TARGETS.throughput_ops
      [] key = "memory_peak_mb" -> metrics[key] <= TARGETS.memory_mb
      [] OTHER -> metrics[key] >= TARGETS.improvement_factor

\* One `if key in metrics:` block: append the entry, bump one tally.
CheckTarget(ev, metrics, key, label) ==
    IF key \notin DOMAIN metrics THEN ev
    ELSE LET passed == Passed(metrics, key) IN
         [ev EXCEPT !.details = Append(@, [metric |-> label, passed |-> passed]),
                    !.targets_met = IF passed THEN @ + 1 ELSE @,
                    !.targets_failed = IF passed THEN @ ELSE @ + 1]

SkippedNever(result) == FALSE

\* `if not result["success"]: continue`
Skipped(result) == ~result.success

\* The body of `for result in results:`.
EvaluateOne(ev, result) ==
    IF Skipped(result) THEN ev
    ELSE LET metrics == result.metrics
             e1 == CheckTarget(ev, metrics, "avg_latency_ms", "Average Latency")
             e2 == CheckTarget(e1, metrics, "throughput_ops_sec", "Throughput")
             e3 == CheckTarget(e2, metrics, "memory_peak_mb", "Memory Usage")
         IN  CheckTarget(e3, metrics, "improvement_factor", "Performance Improvement")

RECURSIVE EvaluateLoop(_, _)
EvaluateLoop(ev, rs) ==
    IF rs = <<>> THEN ev
    ELSE EvaluateLoop(EvaluateOne(ev, Head(rs)), Tail(rs))

evaluate_results(rs) ==
    LET start == [targets_met |-> 0, targets_failed |-> 0, details |-> <<>>,
                  overall_pass |-> FALSE]
        ev == EvaluateLoop(start, rs)
    IN  [ev EXCEPT !.overall_pass = (ev.targets_failed = 0)]

RECURSIVE MetricCount(_)
MetricCount(rs) ==
    IF rs = <<>> THEN 0
    ELSE Cardinality(DOMAIN Head(rs).metrics) + MetricCount(Tail(rs))

EvalInit ==
    /\ run_results = <<>>
    /\ evaluation = None
    /\ RecvIdle
    /\ StopIdle
    /\ RunIdle
    /\ BaseIdle

\* The caller's `results.append(result)`: any result dict.
AppendResult ==
    /\ evaluation = None
    /\ Len(run_results) < MaxEvalLen
    /\ \E success \in BOOLEAN, metrics \in MetricDicts :
         /\ MetricCount(run_results) + Cardinality(DOMAIN metrics) <= MaxMetrics
         /\ run_results' = Append(run_results, [success |-> success, metrics |-> metrics])
    /\ UNCHANGED <<evaluation, recvVars, stopVars, runVars, baseVars>>

EvaluateResults ==
    /\ evaluation = None
    /\ evaluation' = evaluate_results(run_results)
    /\ UNCHANGED <<run_results, recvVars, stopVars, runVars, baseVars>>

EvalNext == AppendResult \/ EvaluateResults

SpecEvaluate == EvalInit /\ [][EvalNext]_vars

\* The number of entries the results with success = true are due.
RECURSIVE EntriesDue(_)
EntriesDue(rs) ==
    IF rs = <<>> THEN 0
    ELSE (IF Head(rs).success
            THEN Cardinality(DOMAIN Head(rs).metrics \cap EvaluatedKeys) ELSE 0)
         + EntriesDue(Tail(rs))

\* C30: after evaluate_results, targets_met + targets_failed is the number
\* of entries of details, targets_met is the number of entries with passed
\* true, only the results with success true have contributed entries, and
\* overall_pass is true exactly when targets_failed is 0.
C30_TalliesConsistent ==
    evaluation # None =>
        /\ evaluation.targets_met + evaluation.targets_failed = Len(evaluation.details)
        /\ evaluation.targets_met
             = Cardinality({i \in DOMAIN evaluation.details : evaluation.details[i].passed})
        /\ Len(evaluation.details) = EntriesDue(run_results)
        /\ evaluation.overall_pass <=> (evaluation.targets_failed = 0)

C30_Witness ==
    /\ evaluation # None
    /\ Len(run_results) = 2
    /\ ~run_results[1].success /\ DOMAIN run_results[1].metrics # {}
    /\ run_results[2].success
    /\ evaluation.targets_met = 1 /\ evaluation.targets_failed = 1
    /\ ~evaluation.overall_pass

(***************************************************************************)
(* The three command-line programs, one run each.                          *)
(*   run_benchmarks        scripts/run_benchmarks.py main                  *)
(*   benchmark_v14         tests/performance/benchmark_v14.py main         *)
(*   performance_reporter  tools/performance_reporter.py main              *)
(* args is the parsed command line, env what the run meets.  run_log       *)
(* records, in order, every benchmark or sampler operation ("sample"),     *)
(* every report written ("report_json", "report_html", "report_csv",       *)
(* "report_console") and every error message or traceback ("error").       *)
(* An exception that leaves main ends the process with status 1.           *)
(***************************************************************************)
MaxTests == 2

Programs == {"run_benchmarks", "benchmark_v14", "performance_reporter"}

DefaultArgs ==
    [ci_mode |-> FALSE, skip_daemon |-> FALSE, format |-> "both", tests |-> 0,
     output |-> FALSE, samples |-> 0, workers |-> 0, check_regressions |-> FALSE,
     baseline |-> "", outputs |-> {}]

DefaultEnv ==
    [binaries |-> TRUE, daemon_starts |-> TRUE, daemon_samples |-> "ok",
     targets |-> TRUE, concurrent_ok |-> TRUE, results_dir |-> "ok",
     regressions |-> FALSE]

\* The command lines argparse accepts.
ArgsOf(prog) ==
    CASE prog = "run_benchmarks" ->
           {[DefaultArgs EXCEPT !.ci_mode = c, !.skip_daemon = s, !.format = f, !.tests = n] :
              c \in BOOLEAN, s \in BOOLEAN, f \in {"json", "html", "both"}, n \in 1..MaxTests}
      [] prog = "benchmark_v14" ->
           {[DefaultArgs EXCEPT !.output = o, !.samples = n, !.workers = w] :
              o \in BOOLEAN, n \in {5, 100}, w \in {0, 10}}
      [] OTHER ->
           {[DefaultArgs EXCEPT !.check_regressions = c, !.baseline = b, !.outputs = o] :
              c \in BOOLEAN, b \in {"", "exists", "missing"},
              o \in SUBSET {"html", "json", "csv"}}

EnvOf(prog) ==
    CASE prog = "run_benchmarks" ->
           {[DefaultEnv EXCEPT !.binaries = b, !.daemon_starts = d] :
              b \in BOOLEAN, d \in BOOLEAN}
      [] prog = "benchmark_v14" ->
           {e \in {[DefaultEnv EXCEPT !.binaries = b, !.daemon_starts = d,
                                      !.daemon_samples = s, !.targets = t,
                                      !.concurrent_ok = c] :
                      b \in BOOLEAN, d \in BOOLEAN,
                      s \in {"ok", "rpc_errors", "transport_error", "none_ok"},
                      t \in BOOLEAN, c \in BOOLEAN} :
              e.binaries \/ ~e.daemon_starts}     \* no binary, no daemon
      [] OTHER ->
           {[DefaultEnv EXCEPT !.results_dir = r, !.regressions = g] :
              r \in {"missing", "empty", "ok"}, g \in BOOLEAN}

RunEnd(end, unmet, regressed) == [end |-> end, unmet |-> unmet, regressed |-> regressed]

RunInit ==
    /\ program \in Programs
    /\ args \in ArgsOf(program)
    /\ env \in EnvOf(program)
    /\ run_pc = "start"
    /\ run_log = <<>>
    /\ exit_code = -1
    /\ run_end = None
    /\ run_results = <<>>
    /\ evaluation = None
    /\ RecvIdle
    /\ StopIdle
    /\ BaseIdle

\* ---- scripts/run_benchmarks.py ----

\* `if not check_binaries(): return 1`
RbCheckBinaries ==
    /\ program = "run_benchmarks" /\ run_pc = "start"
    /\ IF env.binaries
       THEN /\ run_pc' = "daemon"
            /\ UNCHANGED <<run_log, exit_code, run_end>>
       ELSE /\ run_log' = Append(run_log, "error")
            /\ exit_code' = 1
            /\ run_end' = RunEnd("config", FALSE, FALSE)
            /\ run_pc' = "exited"
    /\ UNCHANGED <<program, args, env, evalVars, recvVars, stopVars, baseVars>>

\* `if not args.skip_daemon: daemon_proc = start_daemon() ...`
RbStartDaemon ==
    /\ program = "run_benchmarks" /\ run_pc = "daemon"
    /\ IF args.skip_daemon \/ env.daemon_starts
       THEN /\ run_pc' = "tests"
            /\ UNCHANGED <<run_log, exit_code, run_end>>
       ELSE /\ run_log' = Append(run_log, "error")
            /\ exit_code' = 1
            /\ run_end' = RunEnd("start_failed", FALSE, FALSE)
            /\ run_pc' = "exited"
    /\ UNCHANGED <<program, args, env, evalVars, recvVars, stopVars, baseVars>>

\* What run_benchmark returns: success with the metrics parsed from the
\* output, or success False with no metrics after a non-zero exit, a
\* timeout or any other exception.  It never raises.
OneMetricDicts == {m \in MetricDicts : Cardinality(DOMAIN m) <= 1}

RunBenchmarkResults ==
    {[success |-> TRUE, metrics |-> m] : m \in OneMetricDicts}
      \cup {[success |-> FALSE, metrics |-> <<>>]}

\* One pass of `for test in tests_to_run:`.
RbRunBenchmark ==
    /\ program = "run_benchmarks" /\ run_pc = "tests"
    /\ Len(run_results) < args.tests
    /\ \E result \in RunBenchmarkResults : run_results' = Append(run_results, result)
    /\ run_log' = Append(run_log, "sample")
    /\ UNCHANGED <<program, args, env, run_pc, exit_code, run_end, evaluation,
                   recvVars, stopVars, baseVars>>

\* The end of the loop, the `finally:` that stops the daemon, and the two
\* report generators.
RbReports ==
    /\ program = "run_benchmarks" /\ run_pc = "tests"
    /\ Len(run_results) = args.tests
    /\ run_log' = run_log
                    \o (IF args.format \in {"json", "both"} THEN <<"report_json">> ELSE <<>>)
                    \o (IF args.format \in {"html", "both"} THEN <<"report_html">> ELSE <<>>)
    /\ run_pc' = "evaluate"
    /\ UNCHANGED <<program, args, env, exit_code, run_end, evalVars,
                   recvVars, stopVars, baseVars>>

\* `evaluation = evaluate_results(results)` and the exit code.
RbEvaluate ==
    /\ program = "run_benchmarks" /\ run_pc = "evaluate"
    /\ LET ev == evaluate_results(run_results) IN
       /\ evaluation' = ev
       /\ exit_code' = IF args.ci_mode /\ ~ev.overall_pass THEN 1 ELSE 0
       /\ run_end' = RunEnd("normal", ev.targets_failed > 0, FALSE)
    /\ run_pc' = "exited"
    /\ UNCHANGED <<program, args, env, run_log, run_results, recvVars, stopVars, baseVars>>

\* ---- tests/performance/benchmark_v14.py ----

\* How run_basic_comparison(samples) ends.
BasicComparison(a, e) ==
    IF a.samples > 0 /\ a.samples \div 10 = 0
        THEN "ZeroDivisionError"            \* (i + 1) % (num_samples // 10)
    ELSE IF ~e.binaries THEN "returned"     \* every CLI call fails, absorbed; cli average 0
    ELSE IF ~e.daemon_starts \/ e.daemon_samples = "none_ok"
        THEN "ZeroDivisionError"            \* cli average / daemon average 0
    ELSE IF e.daemon_samples = "transport_error"
        THEN "AttributeError"               \* response["error"] is a str
    ELSE "returned"

\* all(comparison_results.targets_met.values())
AllTargetsMet(e) == e.binaries /\ e.targets

\* `comparison_results = comparison_engine.run_basic_comparison(samples)`
V14BasicComparison ==
    /\ program = "benchmark_v14" /\ run_pc = "start"
    /\ IF BasicComparison(args, env) = "returned"
       THEN /\ run_log' = Append(run_log, "sample")
            /\ run_pc' = "concurrent"
            /\ UNCHANGED <<exit_code, run_end>>
       ELSE /\ run_log' = run_log \o <<"sample", "error">>
            /\ exit_code' = 1
            /\ run_end' = RunEnd("raised", FALSE, FALSE)
            /\ run_pc' = "exited"
    /\ UNCHANGED <<program, args, env, evalVars, recvVars, stopVars, baseVars>>

\* success_rate_percent >= 95 of the concurrent summary; no worker, no sample.
ConcurrentSuccess(a, e) == a.workers > 0 /\ e.daemon_starts /\ e.concurrent_ok

\* run_concurrent_test, print_comparison_summary, generate_json_report
\* `if args.output`, and the exit code.
V14ConcurrentAndReport ==
    /\ program = "benchmark_v14" /\ run_pc = "concurrent"
    /\ run_log' = run_log
                    \o (IF args.workers > 0 /\ env.daemon_starts THEN <<"sample">> ELSE <<>>)
                    \o <<"report_console">>
                    \o (IF args.output THEN <<"report_json">> ELSE <<>>)
    /\ LET all_targets_met == AllTargetsMet(env) /\ ConcurrentSuccess(args, env) IN
       /\ exit_code' = IF all_targets_met THEN 0 ELSE 1
       /\ run_end' = RunEnd("normal", ~all_targets_met, FALSE)
    /\ run_pc' = "exited"
    /\ UNCHANGED <<program, args, env, evalVars, recvVars, stopVars, baseVars>>

\* ---- tools/performance_reporter.py ----

\* The two early exits: results directory missing, no result parsed.
PrLoadResults ==
    /\ program = "performance_reporter" /\ run_pc = "start"
    /\ IF env.results_dir = "ok"
       THEN /\ run_pc' = "report"
            /\ UNCHANGED <<run_log, exit_code, run_end>>
       ELSE /\ run_log' = Append(run_log, "error")
            /\ exit_code' = 1
            /\ run_end' = RunEnd("config", FALSE, FALSE)
            /\ run_pc' = "exited"
    /\ UNCHANGED <<program, args, env, evalVars, recvVars, stopVars, baseVars>>

\* `if args.html: ...  if args.json: ...  if args.csv: ...`
PrReports ==
    /\ program = "performance_reporter" /\ run_pc = "report"
    /\ run_log' = run_log
                    \o (IF "html" \in args.outputs THEN <<"report_html">> ELSE <<>>)
                    \o (IF "json" \in args.outputs THEN <<"report_json">> ELSE <<>>)
                    \o (IF "csv" \in args.outputs THEN <<"report_csv">> ELSE <<>>)
    /\ run_pc' = "regressions"
    /\ UNCHANGED <<program, args, env, exit_code, run_end, evalVars,
                   recvVars, stopVars, baseVars>>

\* `if args.check_regressions and args.baseline: with open(args.baseline) ...`
\* then the summary.
PrRegressions ==
    /\ program = "performance_reporter" /\ run_pc = "regressions"
    /\ IF args.check_regressions /\ args.baseline # ""
       THEN IF args.baseline = "missing"
            THEN \* FileNotFoundError leaves main
                 /\ run_log' = Append(run_log, "error")
                 /\ exit_code' = 1
                 /\ run_end' = RunEnd("raised", FALSE, FALSE)
            ELSE /\ run_log' = run_log
                 /\ exit_code' = IF env.regressions THEN 1 ELSE 0
                 /\ run_end' = RunEnd("normal", FALSE, env.regressions)
       ELSE /\ run_log' = run_log
            /\ exit_code' = 0
            /\ run_end' = RunEnd("normal", FALSE, FALSE)
    /\ run_pc' = "exited"
    /\ UNCHANGED <<program, args, env, evalVars, recvVars, stopVars, baseVars>>

RunNext ==
    \/ RbCheckBinaries \/ RbStartDaemon \/ RbRunBenchmark \/ RbReports \/ RbEvaluate
    \/ V14BasicComparison \/ V14ConcurrentAndReport
    \/ PrLoadResults \/ PrReports \/ PrRegressions

SpecRun == RunInit /\ [][RunNext]_vars

InLog(event) == \E k \in DOMAIN run_log : run_log[k] = event

\* The report events the command line selects.
SelectedReports ==
    CASE program = "run_benchmarks" ->
           (IF args.format \in {"json", "both"} THEN {"report_json"} ELSE {})
             \cup (IF args.format \in {"html", "both"} THEN {"report_html"} ELSE {})
      [] program = "benchmark_v14" ->
           {"report_console"} \cup (IF args.output THEN {"report_json"} ELSE {})
      [] OTHER ->
           (IF "html" \in args.outputs THEN {"report_html"} ELSE {})
             \cup (IF "json" \in args.outputs THEN {"report_json"} ELSE {})
             \cup (IF "csv" \in args.outputs THEN {"report_csv"} ELSE {})

\* C21: a run that has begun sampling does not end before it has emitted
\* the report in every selected format, whichever benchmarks or samples
\* failed or timed out.
C21_ReportAlwaysProduced ==
    (run_pc = "exited" /\ InLog("sample")) => \A f \in SelectedReports : InLog(f)

\* C22: a run that went through to its end exits non-zero exactly when the
\* CI-mode flag is set and a target is unmet or a regression was detected.
C22_CiModeOnlyExitStatus ==
    (run_pc = "exited" /\ run_end.end = "normal") =>
        (exit_code # 0 <=> (args.ci_mode /\ (run_end.unmet \/ run_end.regressed)))

\* The configuration errors: required binaries missing, a worker count
\* below one, a baseline file asked for with --check-regressions that does
\* not exist.
ConfigurationError ==
    CASE program = "run_benchmarks" -> ~env.binaries
      [] program = "benchmark_v14" -> ~env.binaries \/ args.workers < 1
      [] OTHER -> args.check_regressions /\ args.baseline = "missing"

\* C23: with a configuration error the run ends with a non-zero exit and
\* an error message, and neither a sampler operation nor a report output
\* has happened.
C23_ConfigErrorBeforeSampling ==
    (program # "" /\ ConfigurationError /\ run_pc = "exited") =>
        /\ exit_code # 0
        /\ \A k \in DOMAIN run_log : run_log[k] = "error"

====
